---- MODULE Spec2Model ----
(***************************************************************************)
(* Model of the classification-and-estimation pipeline of GreenScore:      *)
(*   AITransactionParser      (src/ai_transaction_parser.py)               *)
(*   CarbonCalculator         (src/carbon_calculator.py)                   *)
(*   CarbonAPIIntegrator      (src/carbon_api_integrator.py)               *)
(*   EnhancedCarbonCalculator (src/enhanced_carbon_calculator.py)          *)
(*                                                                         *)
(* Numbers.  Confidences, reliabilities and weights are fixed-point with   *)
(* ONE standing for 1.0; every value the code produces on the modelled     *)
(* inputs is a whole number of 1/ONE.  Reliability tables are given in     *)
(* hundredths.  Carbon is counted in 1/10000 kg and amounts in dollars;    *)
(* the amounts are multiples of 21 so that the price divisions of the code *)
(* (3.50, 2.5, 0.12, 0.15) are exact in 1/10000.                           *)
(*                                                                         *)
(* Text.  A description is the set of the table strings (merchant names,   *)
(* keywords, intensity patterns) that occur in it as substrings, so the    *)
(* code's `x in description` is membership.                                *)
(***************************************************************************)
EXTENDS Integers, Sequences, FiniteSets, TLC

ONE == 120000

\* n hundredths as a fixed-point number: Pct(95) is 0.95
Pct(n) == n * (ONE \div 100)

\* a fixed-point number times a table entry given in hundredths
MulPct(a, n) == (a * n) \div 100

Min(a, b) == IF a <= b THEN a ELSE b
Max(a, b) == IF a >= b THEN a ELSE b

RECURSIVE SumSeq(_)
SumSeq(s) == IF s = <<>> THEN 0 ELSE Head(s) + SumSeq(Tail(s))

\* the first index of s whose element satisfies P (0 if none)
FirstIndex(s, P(_)) ==
    IF \E i \in 1..Len(s) : P(s[i])
    THEN CHOOSE i \in 1..Len(s) : P(s[i]) /\ \A j \in 1..(i-1) : ~P(s[j])
    ELSE 0

\* s without repetitions, first occurrences kept in order (dict key order)
RECURSIVE Distinct(_)
Distinct(s) ==
    IF s = <<>> THEN <<>>
    ELSE LET r == Distinct(SubSeq(s, 1, Len(s) - 1))
             x == s[Len(s)]
         IN IF \E i \in 1..Len(r) : r[i] = x THEN r ELSE Append(r, x)

\* Python's max(keys, key=f): the first key of the sequence with maximal f
ArgMaxFirst(keys, f(_)) ==
    keys[CHOOSE i \in 1..Len(keys) :
            /\ \A j \in 1..Len(keys) : f(keys[j]) <= f(keys[i])
            /\ \A j \in 1..(i-1) : f(keys[j]) < f(keys[i])]

(***************************************************************************)
(* TransactionClassification and the static tables of AITransactionParser  *)
(***************************************************************************)
NoLocation == "None"

\* Optional[TransactionClassification]: fired = FALSE is Python's None
NoResult ==
    [fired |-> FALSE, category |-> "", subcategory |-> "", confidence |-> 0,
     carbon_intensity |-> "", merchant_type |-> "", location |-> NoLocation]

TransactionClassification(cat, sub, conf, ci, mt, loc) ==
    [fired |-> TRUE, category |-> cat, subcategory |-> sub, confidence |-> conf,
     carbon_intensity |-> ci, merchant_type |-> mt, location |-> loc]

\* the entries of load_merchant_database that occur in the modelled
\* descriptions, in the order of the table
merchant_database ==
    << [merchant |-> "shell",   category |-> "Transportation", subcategory |-> "gasoline",
        carbon_intensity |-> "high"],
       [merchant |-> "delta",   category |-> "Transportation", subcategory |-> "flight",
        carbon_intensity |-> "very_high"],
       [merchant |-> "pge",     category |-> "Energy", subcategory |-> "electricity",
        carbon_intensity |-> "medium"],
       [merchant |-> "walmart", category |-> "Food", subcategory |-> "grocery",
        carbon_intensity |-> "medium"],
       [merchant |-> "netflix", category |-> "Entertainment", subcategory |-> "streaming",
        carbon_intensity |-> "low"] >>

\* the (category, subcategory) rows of load_category_keywords that the
\* modelled descriptions can hit, each with its complete keyword list
category_keywords ==
    << [category |-> "Transportation", subcategory |-> "fuel",
        keywords |-> <<"gas", "fuel", "gasoline", "diesel", "petrol", "station">>],
       [category |-> "Transportation", subcategory |-> "flight",
        keywords |-> <<"airline", "flight", "airport", "airways", "air">>],
       [category |-> "Energy", subcategory |-> "electricity",
        keywords |-> <<"electric", "power", "utility", "pge", "edison", "energy">>],
       [category |-> "Food", subcategory |-> "grocery",
        keywords |-> <<"grocery", "market", "supermarket", "food", "safeway", "kroger">>],
       [category |-> "Shopping", subcategory |-> "retail",
        keywords |-> <<"store", "shop", "retail", "mall", "target", "walmart">>],
       [category |-> "Entertainment", subcategory |-> "streaming",
        keywords |-> <<"netflix", "spotify", "hulu", "disney", "streaming">>] >>

carbon_intensity_patterns ==
    << [intensity |-> "very_high", patterns |-> {"flight", "airline", "jet", "plane", "airport"}],
       [intensity |-> "high", patterns |-> {"gas", "fuel", "coal", "beef", "meat", "steak", "burger"}],
       [intensity |-> "medium", patterns |-> {"car", "drive", "restaurant", "retail", "shopping"}],
       [intensity |-> "low", patterns |-> {"bike", "walk", "train", "bus", "vegetarian", "organic", "local"}],
       [intensity |-> "very_low", patterns |-> {"renewable", "solar", "wind", "electric bike", "walking"}] >>

\* the zero-shot candidate labels of setup_classification_model
category_labels ==
    {"transportation and fuel", "food and dining", "energy and utilities",
     "shopping and retail", "entertainment and recreation",
     "healthcare and medical", "other services"}

\* cleaned descriptions, each the set of table strings it contains:
\*   "Shell Gas Station #1234", "Netflix Subscription",
\*   "zzz9182 random unrecognized text", "electric bill",
\*   "walmart food market", "delta airline flight",
\*   "walmart store shop retail mall", "Shell Oil 5512",
\*   "Delta Gasoline Station fuel", "gasoline diesel fuel station", and the
\*   empty description ""
DescShell    == {"shell", "gas", "station"}
DescNetflix  == {"netflix"}
DescUnknown  == {"zzz"}
DescElectric == {"electric"}
DescWalmart  == {"walmart", "food", "market"}
DescDelta    == {"delta", "airline", "flight", "air"}
DescMall     == {"walmart", "store", "shop", "retail", "mall"}
DescShellOil == {"shell"}
DescDeltaGas == {"delta", "gas", "fuel", "gasoline", "station"}
DescFuel     == {"gas", "fuel", "gasoline", "diesel", "station"}
DescEmpty    == {}

Descriptions ==
    {DescShell, DescNetflix, DescUnknown, DescElectric, DescWalmart, DescDelta,
     DescMall, DescShellOil, DescDeltaGas, DescFuel, DescEmpty}

(***************************************************************************)
(* The four signals                                                        *)
(***************************************************************************)
\* classify_by_merchant with another confidence constant
classify_by_merchant_090(description) ==
    LET i == FirstIndex(merchant_database, LAMBDA m : m.merchant \in description)
    IN IF i = 0 THEN NoResult
       ELSE TransactionClassification(merchant_database[i].category,
                merchant_database[i].subcategory, Pct(90),
                merchant_database[i].carbon_intensity, "known_merchant", NoLocation)

\* classify_by_merchant: the first merchant of the table found in the text
classify_by_merchant(description) ==
    LET i == FirstIndex(merchant_database, LAMBDA m : m.merchant \in description)
    IN IF i = 0 THEN NoResult
       ELSE TransactionClassification(merchant_database[i].category,
                merchant_database[i].subcategory, Pct(95),
                merchant_database[i].carbon_intensity, "known_merchant", NoLocation)

\* What the spaCy capability does on one call: it is not loaded (self.nlp is
\* None), it raises, or it returns a document whose ORG entities (lowercased
\* spans of the text) and GPE/LOC entities are listed in order.
NlpOutcomes(description) ==
    {[status |-> "unavailable", orgs |-> <<>>, locations |-> <<>>],
     [status |-> "raise", orgs |-> <<>>, locations |-> <<>>]}
    \cup
    {[status |-> "doc", orgs |-> o, locations |-> l] :
        o \in {<<>>, <<"acme">>} \cup {<<m>> : m \in description},
        l \in {<<>>, <<"NY">>}}

nlp_raises(nlp) == nlp.status = "raise"

\* classify_by_nlp (defined when the capability does not raise)
classify_by_nlp(description, nlp) ==
    IF nlp.status # "doc" THEN NoResult
    ELSE LET InDb(org) == \E k \in 1..Len(merchant_database) :
                             merchant_database[k].merchant = org
             i == FirstIndex(nlp.orgs, InDb)
         IN IF i = 0 THEN NoResult
            ELSE LET info == merchant_database[
                                CHOOSE k \in 1..Len(merchant_database) :
                                    merchant_database[k].merchant = nlp.orgs[i]]
                 IN TransactionClassification(info.category, info.subcategory,
                        Pct(85), info.carbon_intensity, "nlp_extracted",
                        IF nlp.locations # <<>> THEN nlp.locations[1] ELSE NoLocation)

\* What the text-classification capability does on one call: not loaded,
\* raises, or returns scores whose best entry is (label, score).
BertScores == {Pct(50), Pct(60), Pct(90)}

BertOutcomes ==
    {[status |-> "unavailable", label |-> "", score |-> 0],
     [status |-> "raise", label |-> "", score |-> 0],
     [status |-> "empty", label |-> "", score |-> 0]}
    \cup
    {[status |-> "result", label |-> l, score |-> s] :
        l \in category_labels, s \in BertScores}

bert_category_mapping(label) ==
    CASE label = "transportation and fuel" -> "Transportation"
      [] label = "food and dining" -> "Food"
      [] label = "energy and utilities" -> "Energy"
      [] label = "shopping and retail" -> "Shopping"
      [] label = "entertainment and recreation" -> "Entertainment"
      [] label = "healthcare and medical" -> "Healthcare"
      [] label = "other services" -> "Other"
      [] OTHER -> "Other"

bert_carbon_intensity_map(category) ==
    CASE category = "Transportation" -> "high"
      [] category \in {"Energy", "Food", "Shopping"} -> "medium"
      [] category \in {"Entertainment", "Healthcare", "Other"} -> "low"
      [] OTHER -> "medium"

\* classify_by_bert: an exception of the capability is caught (line 329)
classify_by_bert(description, bert) ==
    IF bert.status # "result" THEN NoResult
    ELSE IF bert.score > Pct(50)
         THEN LET category == bert_category_mapping(bert.label)
              IN TransactionClassification(category, "bert_classified", bert.score,
                     bert_carbon_intensity_map(category), "ai_classified", NoLocation)
         ELSE NoResult

intensity_defaults(category, subcategory) ==
    CASE category = "Transportation" ->
            (CASE subcategory = "fuel" -> "high"
               [] subcategory = "flight" -> "very_high"
               [] subcategory = "rideshare" -> "medium"
               [] subcategory = "public_transport" -> "low"
               [] OTHER -> "medium")
      [] category = "Energy" ->
            (CASE subcategory = "electricity" -> "medium"
               [] subcategory = "gas" -> "high"
               [] subcategory = "renewable" -> "very_low"
               [] OTHER -> "medium")
      [] category = "Food" ->
            (CASE subcategory = "fast_food" -> "high"
               [] subcategory \in {"restaurant", "grocery"} -> "medium"
               [] subcategory = "organic_grocery" -> "low"
               [] OTHER -> "medium")
      [] category = "Shopping" ->
            (CASE subcategory = "electronics" -> "high"
               [] OTHER -> "medium")
      [] category = "Entertainment" -> "low"
      [] OTHER -> "medium"

determine_carbon_intensity(description, category, subcategory) ==
    LET i == FirstIndex(carbon_intensity_patterns,
                        LAMBDA row : row.patterns \cap description # {})
    IN IF i # 0 THEN carbon_intensity_patterns[i].intensity
       ELSE intensity_defaults(category, subcategory)

\* the normalized score of one keyword row: matched / len(keywords)
KeywordScore(description, row) ==
    (Cardinality({k \in 1..Len(row.keywords) : row.keywords[k] \in description}) * ONE)
        \div Len(row.keywords)

\* the loop of classify_by_keywords over rows 1..n: [best_score, best_match]
RECURSIVE KeywordLoop(_, _)
KeywordLoop(description, n) ==
    IF n = 0 THEN [best_score |-> 0, best_match |-> NoResult]
    ELSE LET prev == KeywordLoop(description, n - 1)
             row == category_keywords[n]
             normalized_score == KeywordScore(description, row)
         IN IF normalized_score > prev.best_score
            THEN [best_score |-> normalized_score,
                  best_match |-> TransactionClassification(row.category, row.subcategory,
                      Min(normalized_score, Pct(80)),
                      determine_carbon_intensity(description, row.category, row.subcategory),
                      "keyword_matched", NoLocation)]
            ELSE prev

classify_by_keywords(description) ==
    LET r == KeywordLoop(description, Len(category_keywords))
    IN IF r.best_score > Pct(10) THEN r.best_match ELSE NoResult

(***************************************************************************)
(* combine_classifications and parse_transaction                           *)
(***************************************************************************)
\* method_weights.get(merchant_type, 0.5)
method_weights(merchant_type) ==
    CASE merchant_type = "known_merchant" -> 100
      [] merchant_type = "nlp_extracted" -> 80
      [] merchant_type = "ai_classified" -> 70
      [] merchant_type = "keyword_matched" -> 60
      [] merchant_type = "fallback" -> 10
      [] OTHER -> 50

weighted_confidence(result) == MulPct(result.confidence, method_weights(result.merchant_type))

\* the sum of f over the elements of s that satisfy P
SumWhere(s, P(_), f(_)) ==
    LET sel == SelectSeq(s, P)
    IN SumSeq([i \in 1..Len(sel) |-> f(sel[i])])

\* category_scores[category]['best_result'] after the loop over results 1..n
RECURSIVE best_result(_, _, _)
best_result(valid_results, category, n) ==
    IF n = 0 THEN NoResult
    ELSE LET prev == best_result(valid_results, category, n - 1)
             result == valid_results[n]
         IN IF result.category # category THEN prev
            ELSE IF ~prev.fired \/ weighted_confidence(result) > prev.confidence
                 THEN result
                 ELSE prev

\* combine_classifications with the weights of all categories added up
\* into the confidence
combine_classifications_all_categories(results) ==
    LET valid_results == SelectSeq(results, LAMBDA r : r.fired)
    IN IF valid_results = <<>>
       THEN TransactionClassification("Other", "unclassified", Pct(10), "medium",
                                      "fallback", NoLocation)
       ELSE
       LET categories == Distinct([i \in 1..Len(valid_results) |-> valid_results[i].category])
           total_weight(c) == SumWhere(valid_results, LAMBDA r : r.category = c,
                                       weighted_confidence)
           best_category == ArgMaxFirst(categories, total_weight)
           best == best_result(valid_results, best_category, Len(valid_results))
       IN TransactionClassification(best_category, best.subcategory,
              Min(SumSeq([i \in 1..Len(valid_results) |->
                             weighted_confidence(valid_results[i])]), ONE),
              best.carbon_intensity, "combined_ai", best.location)

\* combine_classifications without the cap of line 482: the confidence is
\* the total weight of the best category
combine_classifications_uncapped(results) ==
    LET valid_results == SelectSeq(results, LAMBDA r : r.fired)
    IN IF valid_results = <<>>
       THEN TransactionClassification("Other", "unclassified", Pct(10), "medium",
                                      "fallback", NoLocation)
       ELSE
       LET categories == Distinct([i \in 1..Len(valid_results) |-> valid_results[i].category])
           total_weight(c) == SumWhere(valid_results, LAMBDA r : r.category = c,
                                       weighted_confidence)
           best_category == ArgMaxFirst(categories, total_weight)
           best == best_result(valid_results, best_category, Len(valid_results))
       IN TransactionClassification(best_category, best.subcategory,
              total_weight(best_category), best.carbon_intensity, "combined_ai",
              best.location)

\* combine_classifications that also falls back when the best category's
\* total weight stays below 0.2
combine_classifications_weak_fallback(results) ==
    LET valid_results == SelectSeq(results, LAMBDA r : r.fired)
        total == SumSeq([i \in 1..Len(valid_results) |->
                            weighted_confidence(valid_results[i])])
    IN IF total < Pct(20)
       THEN TransactionClassification("Other", "unclassified", Pct(10), "medium",
                                      "fallback", NoLocation)
       ELSE combine_classifications_uncapped(results)

combine_classifications(results) ==
    LET valid_results == SelectSeq(results, LAMBDA r : r.fired)
    IN IF valid_results = <<>>
       THEN TransactionClassification("Other", "unclassified", Pct(10), "medium",
                                      "fallback", NoLocation)
       ELSE
       LET categories == Distinct([i \in 1..Len(valid_results) |-> valid_results[i].category])
           total_weight(c) == SumWhere(valid_results, LAMBDA r : r.category = c,
                                       weighted_confidence)
           best_category == ArgMaxFirst(categories, total_weight)
           in_best == SelectSeq(valid_results, LAMBDA r : r.category = best_category)
           subcategories == Distinct([i \in 1..Len(in_best) |-> in_best[i].subcategory])
           carbon_intensities ==
               Distinct([i \in 1..Len(in_best) |-> in_best[i].carbon_intensity])
           sub_weight(k) == SumWhere(in_best, LAMBDA r : r.subcategory = k,
                                     weighted_confidence)
           ci_weight(k) == SumWhere(in_best, LAMBDA r : r.carbon_intensity = k,
                                    weighted_confidence)
           best_subcategory == ArgMaxFirst(subcategories, sub_weight)
           best_carbon_intensity == ArgMaxFirst(carbon_intensities, ci_weight)
           final_confidence == Min(total_weight(best_category), ONE)
       IN TransactionClassification(best_category, best_subcategory, final_confidence,
              best_carbon_intensity, "combined_ai",
              best_result(valid_results, best_category, Len(valid_results)).location)

\* the four signal results of parse_transaction, in the order they are combined
signal_results(description, nlp, bert) ==
    << classify_by_merchant(description),
       classify_by_nlp(description, nlp),
       classify_by_bert(description, bert),
       classify_by_keywords(description) >>

\* parse_transaction: classify_by_nlp has no exception handler, so an
\* exception of the nlp capability leaves parse_transaction
parse_transaction_raises(description, nlp, bert) == nlp_raises(nlp)

parse_transaction(description, nlp, bert) ==
    combine_classifications(signal_results(description, nlp, bert))

(***************************************************************************)
(* CarbonCalculator.calculate_footprint (unit 'dollar', no additional     *)
(* data: the only way the pipeline calls it)                               *)
(***************************************************************************)
\* the strings the code looks for inside a subcategory (`x in subcategory`)
SubstringsOf(subcategory) ==
    CASE subcategory = "gasoline" -> {"gas", "gasoline"}
      [] subcategory = "fuel" -> {"fuel"}
      [] subcategory = "flight" -> {"flight"}
      [] subcategory = "gas" -> {"gas"}
      [] OTHER -> {}

Amounts == {-21, 0, 21}

\* emission_factors[category][subcategory] in 1/10000 kg per unit, with the
\* fall-backs of lines 110-116: unknown subcategory -> the category's
\* 'default', unknown category -> {'default': 0.3}
emission_factor(category, subcategory) ==
    CASE category = "Transportation" ->
            (CASE subcategory = "taxi" -> 5000
               [] subcategory = "train" -> 600
               [] OTHER -> 4040)
      [] category = "Energy" ->
            (CASE subcategory = "propane" -> 2150
               [] OTHER -> 5000)
      [] category = "Food" ->
            (CASE subcategory = "beef" -> 600000
               [] subcategory = "chicken" -> 69000
               [] OTHER -> 25000)
      [] category = "Shopping" ->
            (CASE subcategory = "electronics" -> 12000
               [] OTHER -> 5000)
      [] category = "Entertainment" ->
            (CASE subcategory = "gaming" -> 120
               [] OTHER -> 2000)
      [] OTHER -> 3000

\* _calculate_transportation, unit == 'dollar'
calculate_transportation(subcategory, amount, factor) ==
    IF "gas" \in SubstringsOf(subcategory) \/ "fuel" \in SubstringsOf(subcategory)
    THEN \* gallons = amount / 3.50; miles = gallons * 25
         (amount * 2 * 25 * factor) \div 7
    ELSE \* estimated_miles = amount / 2.5
         (amount * 2 * factor) \div 5

\* _calculate_energy, unit == 'dollar': kwh = amount * 8.5
calculate_energy(subcategory, amount, factor) == (amount * 17 * factor) \div 2

\* _calculate_food, unit == 'dollar'
calculate_food(subcategory, amount, factor) ==
    IF subcategory \in {"beef", "lamb"} THEN (amount * factor) \div 15
    ELSE IF subcategory \in {"chicken", "pork"} THEN (amount * factor) \div 8
    ELSE IF subcategory \in {"vegetables", "fruits"} THEN (amount * factor) \div 4
    ELSE (amount * factor) \div 6

apply_unit_conversion(category, subcategory, amount, factor) ==
    CASE category = "Transportation" -> calculate_transportation(subcategory, amount, factor)
      [] category = "Energy" -> calculate_energy(subcategory, amount, factor)
      [] category = "Food" -> calculate_food(subcategory, amount, factor)
      [] OTHER -> amount * factor

calculate_footprint(category, subcategory, amount) ==
    Max(0, apply_unit_conversion(category, subcategory, amount,
                                 emission_factor(category, subcategory)))

\* Python's None passed as the subcategory
NoSubcategory == "<None>"

\* calculate_footprint with its unit parameter, for the units 'dollar',
\* 'miles', 'gallons', 'kwh', 'therms', 'kg', 'servings' and a unit no branch
\* knows; additional_data is absent.  subcategory.lower() is an attribute
\* access on the argument: with None it raises AttributeError.
FootprintUnits == {"dollar", "miles", "gallons", "kwh", "therms", "kg", "servings", "hours"}

\* the branches of _calculate_transportation and _calculate_food that
\* evaluate subcategory.lower() (lines 152, 203, 209)
reads_subcategory_lower(category, unit) ==
    \/ category = "Transportation" /\ unit = "dollar"
    \/ category = "Food" /\ unit \in {"servings", "dollar"}

\* serving_weights of _calculate_food, in grams
serving_weight(subcategory) ==
    CASE subcategory = "beef" -> 113
      [] subcategory \in {"chicken", "fish"} -> 85
      [] subcategory = "vegetables" -> 80
      [] subcategory = "rice" -> 45
      [] OTHER -> 100

\* _apply_unit_conversion for a string subcategory
apply_unit_conversion_unit(category, subcategory, amount, unit, factor) ==
    CASE category = "Transportation" ->
            (CASE unit = "gallons" -> amount * 25 * factor
               [] unit = "dollar" -> calculate_transportation(subcategory, amount, factor)
               [] OTHER -> amount * factor)
      [] category = "Energy" ->
            (CASE unit = "dollar" -> calculate_energy(subcategory, amount, factor)
               [] unit = "therms" -> amount * 53000
               [] OTHER -> amount * factor)
      [] category = "Food" ->
            (CASE unit = "servings" -> amount * serving_weight(subcategory) * (factor \div 1000)
               [] unit = "dollar" -> calculate_food(subcategory, amount, factor)
               [] OTHER -> amount * factor)
      [] OTHER -> amount * factor

\* the outcome of one call: the factor chosen (lines 108-114), whether the
\* call raised, and the value returned otherwise
calculate_footprint_unit(category, subcategory, amount, unit) ==
    LET factor == emission_factor(category, subcategory)
    IN IF subcategory = NoSubcategory /\ reads_subcategory_lower(category, unit)
       THEN [factor |-> factor, raised |-> TRUE, carbon_kg |-> 0]
       ELSE [factor |-> factor, raised |-> FALSE,
             carbon_kg |-> Max(0, apply_unit_conversion_unit(category, subcategory,
                                                             amount, unit, factor))]

(***************************************************************************)
(* Estimates.  An estimate is [carbon_kg, confidence, source]; the dict    *)
(* `estimates` is a sequence of [key, est] in insertion order.             *)
(***************************************************************************)
Estimate(carbon, conf, src) == [carbon_kg |-> carbon, confidence |-> conf, source |-> src]

HasKey(estimates, k) == \E i \in 1..Len(estimates) : estimates[i].key = k

Keys(estimates) == {estimates[i].key : i \in 1..Len(estimates)}

\* estimates[k] = est on a dict kept as a sequence
Put(estimates, k, est) ==
    IF HasKey(estimates, k)
    THEN [i \in 1..Len(estimates) |->
            IF estimates[i].key = k THEN [key |-> k, est |-> est] ELSE estimates[i]]
    ELSE Append(estimates, [key |-> k, est |-> est])

\* EnhancedCarbonCalculator._map_to_activity_type
map_to_activity_type(classification) ==
    IF classification.category = "Transportation"
          /\ "flight" \in SubstringsOf(classification.subcategory)
    THEN "flight"
    ELSE IF classification.category = "Transportation"
               /\ SubstringsOf(classification.subcategory) \cap {"gas", "fuel", "gasoline"} # {}
    THEN "fuel"
    ELSE CASE classification.category = "Transportation" -> "transportation"
           [] classification.category = "Energy" -> "electricity"
           [] classification.category = "Food" -> "food"
           [] classification.category = "Shopping" -> "manufacturing"
           [] OTHER -> "other"

\* activity data: the dict keys present and the quantities the estimators
\* read, in thousandths (0 where the key is absent, as activity_data.get(k, 0))
ActivityData(keys, amount, gallons, miles, kwh, kg) ==
    [keys |-> keys, amount |-> amount, gallons |-> gallons, distance_miles |-> miles,
     kwh |-> kwh, kg |-> kg]

\* EnhancedCarbonCalculator._prepare_activity_data
prepare_activity_data(classification, amount) ==
    LET loc == IF classification.location # NoLocation THEN {"location"} ELSE {}
    IN CASE classification.category = "Transportation" ->
            IF "gas" \in SubstringsOf(classification.subcategory)
            THEN ActivityData({"amount", "gallons", "fuel_type"} \cup loc, amount,
                              (amount * 2000) \div 7, 0, 0, 0)
            ELSE ActivityData({"amount", "distance_miles", "vehicle_type"} \cup loc, amount,
                              0, (amount * 2000) \div 5, 0, 0)
      [] classification.category = "Energy" ->
            ActivityData({"amount", "kwh", "country", "region"} \cup loc, amount,
                         0, 0, (amount * 100000) \div 12, 0)
      [] classification.category = "Food" ->
            \* no modelled subcategory contains 'beef', 'meat', 'burger' or
            \* 'chicken': kg = amount / 6, food_type = 'mixed'
            ActivityData({"amount", "kg", "food_type"} \cup loc, amount,
                         0, 0, 0, (amount * 1000) \div 6)
      [] OTHER -> ActivityData({"amount"} \cup loc, amount, 0, 0, 0, 0)

\* _calculate_industry_specific with the fuel volume taken from what the
\* amount exceeds a flat 35.00 by
calculate_industry_specific_net(classification, amount) ==
    LET fuel_station == /\ classification.category = "Transportation"
                        /\ SubstringsOf(classification.subcategory) \cap {"gas", "fuel"} # {}
    IN [present |-> fuel_station,
        est |-> Estimate(((amount - 35) * 2 * 88900) \div 7, Pct(85), "Industry-specific")]

\* EnhancedCarbonCalculator._calculate_industry_specific: [present, est]
calculate_industry_specific(classification, amount) ==
    LET industry ==
            IF classification.category = "Transportation"
            THEN IF "flight" \in SubstringsOf(classification.subcategory) THEN "airline"
                 ELSE IF SubstringsOf(classification.subcategory) \cap {"gas", "fuel"} # {}
                      THEN "fuel_station"
                      ELSE "None"
            ELSE IF classification.category = "Energy" THEN "utility" ELSE "None"
        carbon_kg ==
            CASE industry = "airline" -> (amount * 100 * 2550) \div 15
              [] industry = "utility" -> (amount * 100 * 5000) \div 12
              [] industry = "fuel_station" -> (amount * 2 * 88900) \div 7
              [] OTHER -> 0
    IN [present |-> industry # "None",
        est |-> Estimate(carbon_kg, Pct(85), "Industry-specific")]

(***************************************************************************)
(* CarbonAPIIntegrator                                                     *)
(***************************************************************************)
CarbonAPIProvider == {"CARBON_INTERFACE", "CLOVERLY", "CO2_SIGNAL", "CLIMATIQ", "EPA"}

NoProvider == "None"

\* the carbon_kg values an API response can carry (1/10000 kg)
ApiCarbonValues == {500000}

NoEstimate == Estimate(0, 0, "None")

\* _calculate_fallback_estimate: confidence 0.7, source 'EPA/IPCC Fallback'.
\* region 'us_average' 0.5, vehicle 'gasoline_car' 0.404, fuel 'gasoline'
\* 8.89, food_type 'mixed' -> .get(food_type, 2.5)
calculate_fallback_estimate(activity_type, activity_data) ==
    LET carbon_kg ==
            CASE activity_type = "electricity" -> (activity_data.kwh * 5000) \div 1000
              [] activity_type = "transportation" ->
                    (activity_data.distance_miles * 4040) \div 1000
              [] activity_type = "fuel" -> (activity_data.gallons * 88900) \div 1000
              [] activity_type = "food" -> (activity_data.kg * 25000) \div 1000
              [] OTHER -> 0
    IN Estimate(carbon_kg, Pct(70), "EPA/IPCC Fallback")

\* What one call of _get_estimate_from_provider can do, by provider:
\*   [kind |-> "ok", est |-> e] it returns the estimate e,
\*   [kind |-> "null"]          it returns None (no API key, activity type not
\*                              served, HTTP status # 200, request error caught
\*                              inside the provider method),
\*   [kind |-> "raise"]         it raises.
Ok(e) == [kind |-> "ok", est |-> e]
Null == [kind |-> "null", est |-> NoEstimate]
Raise == [kind |-> "raise", est |-> NoEstimate]

ProviderOutcomes(provider, activity_type, activity_data) ==
    CASE provider = "CARBON_INTERFACE" ->
            \* _carbon_interface_estimate: endpoint_mapping, confidence 0.9
            {Null} \cup
            (IF activity_type \in {"electricity", "transportation", "flight", "shipping", "fuel"}
             THEN {Ok(Estimate(c, Pct(90), "Carbon Interface")) : c \in ApiCarbonValues}
             ELSE {})
      [] provider = "CLIMATIQ" ->
            \* _climatiq_estimate: factor_mapping, confidence 0.85
            {Null} \cup
            (IF activity_type \in {"electricity", "transportation", "flight", "fuel"}
             THEN {Ok(Estimate(c, Pct(85), "Climatiq")) : c \in ApiCarbonValues}
             ELSE {})
      [] provider = "CLOVERLY" ->
            \* line 171 calls self._cloverly_estimate, which the class does
            \* not define: AttributeError on every call
            {Raise}
      [] provider = "CO2_SIGNAL" ->
            \* _co2_signal_estimate: electricity only; carbon_kg =
            \* carbonIntensity (default 500 g/kWh) * kwh / 1000, confidence 0.8
            {Null} \cup
            (IF activity_type = "electricity"
             THEN {Ok(Estimate((activity_data.kwh * 5000) \div 1000, Pct(80), "CO2 Signal"))}
             ELSE {})
      [] OTHER -> {Null}   \* EPA: no branch of _get_estimate_from_provider

\* the providers get_carbon_estimate tries, in order: the preferred one,
\* then the list of line 140 without it
providers == <<"CARBON_INTERFACE", "CLIMATIQ", "CLOVERLY", "CO2_SIGNAL">>

ProviderOrder(preferred_provider) ==
    (IF preferred_provider # NoProvider THEN <<preferred_provider>> ELSE <<>>)
    \o SelectSeq(providers, LAMBDA p : p # preferred_provider)

\* One run of get_carbon_estimate: the calls of _get_estimate_from_provider
\* made, in order (provider, and whether it returned an estimate), the
\* estimate returned and where it came from.
Run(calls, est, from) == [calls |-> calls, estimate |-> est, from |-> from]

\* the first n providers of the order were called; the hit-th returned an
\* estimate (hit = 0: none did)
CallLog(order, n, hit) == [i \in 1..n |-> [provider |-> order[i], ok |-> (i = hit)]]

\* The loop of get_carbon_estimate from the k-th provider of the order on:
\* a provider that returns an estimate ends the call (lines 134-135,
\* 155-156); one that returns None or raises is passed over (lines 136-137,
\* 157-159); after the last one the fallback is returned (line 162).
RECURSIVE RunsFrom(_, _, _, _)
RunsFrom(order, k, activity_type, activity_data) ==
    IF k > Len(order)
    THEN {Run(CallLog(order, Len(order), 0),
              calculate_fallback_estimate(activity_type, activity_data), "fallback")}
    ELSE LET outs == ProviderOutcomes(order[k], activity_type, activity_data)
         IN {Run(CallLog(order, k, k), o.est, order[k]) : o \in {q \in outs : q.kind = "ok"}}
            \cup
            (IF \E o \in outs : o.kind # "ok"
             THEN RunsFrom(order, k + 1, activity_type, activity_data)
             ELSE {})

\* every way one call of get_carbon_estimate can go
get_carbon_estimate(activity_type, activity_data, preferred_provider) ==
    RunsFrom(ProviderOrder(preferred_provider), 1, activity_type, activity_data)

(***************************************************************************)
(* EnhancedCarbonCalculator._calculate_weighted_estimate                   *)
(***************************************************************************)
\* source_weights with the reliabilities of industry_specific and local
\* exchanged
source_weights_exchanged(source) ==
    CASE source = "api_carbon_interface" -> 100
      [] source = "api_climatiq" -> 95
      [] source = "api_cloverly" -> 90
      [] source = "industry_specific" -> 80
      [] source = "local" -> 85
      [] OTHER -> 50

\* source_weights.get(source, 0.5), in hundredths
source_weights(source) ==
    CASE source = "api_carbon_interface" -> 100
      [] source = "api_climatiq" -> 95
      [] source = "api_cloverly" -> 90
      [] source = "industry_specific" -> 85
      [] source = "local" -> 80
      [] OTHER -> 50

final_weight(entry) == MulPct(entry.est.confidence, source_weights(entry.key))

\* Every weight is a whole number of 1/400 (reliabilities and confidences
\* are multiples of 0.05); the weighted sum is kept in carbon * (1/400).
WeightIn400(w) == w \div (ONE \div 400)

\* the fusion with the cap of line 199 taken on the sum of the weights
\* instead of on their mean
calculate_weighted_estimate_capped_sum(estimates) ==
    LET n == Len(estimates)
        total_weight == SumSeq([i \in 1..n |-> final_weight(estimates[i])])
    IN [carbon_kg |-> 0,
        confidence |-> IF n = 0 THEN 0 ELSE Min(total_weight, ONE) \div n,
        method |-> "Weighted average",
        total_weight |-> total_weight,
        primary_source |-> "None"]

\* the fusion with the sum of the weights taken for the confidence: no
\* division by len(estimates) and no cap (line 199)
calculate_weighted_estimate_sum(estimates) ==
    LET n == Len(estimates)
        total_weight == SumSeq([i \in 1..n |-> final_weight(estimates[i])])
    IN [carbon_kg |-> 0,
        confidence |-> total_weight,
        method |-> "Weighted average",
        total_weight |-> total_weight,
        primary_source |-> "None"]

calculate_weighted_estimate(estimates) ==
    IF estimates = <<>>
    THEN [carbon_kg |-> 0, confidence |-> 0, method |-> "No estimates available",
          total_weight |-> 0, primary_source |-> "None"]
    ELSE
    LET n == Len(estimates)
        weighted_sum == SumSeq([i \in 1..n |->
                            estimates[i].est.carbon_kg * WeightIn400(final_weight(estimates[i]))])
        total_weight == SumSeq([i \in 1..n |-> final_weight(estimates[i])])
    IN IF total_weight = 0
       THEN [carbon_kg |-> 0, confidence |-> 0, method |-> "No valid estimates",
             total_weight |-> 0, primary_source |-> "None"]
       ELSE LET primary == ArgMaxFirst(estimates, final_weight)
            IN [carbon_kg |-> weighted_sum \div WeightIn400(total_weight),
                confidence |-> Min(total_weight \div n, ONE),
                method |-> "Weighted average",
                total_weight |-> total_weight,
                primary_source |-> primary.key]

(***************************************************************************)
(* State                                                                   *)
(***************************************************************************)
VARIABLES
    pc,               \* where process_transaction stands
    tx,               \* its arguments: description, amount, user_preferences
    signals,          \* the four results combined by parse_transaction
    capability_errors,\* the capabilities (nlp, bert) that raised while parsing
    classification,   \* ai_classification (line 41)
    estimates,        \* the dict built by _get_multiple_estimates
    provider_calls,   \* the calls of _get_estimate_from_provider made for tx
    final_estimate,   \* the result of _calculate_weighted_estimate
    result,           \* what process_transaction handed back to its caller
    \* batch_process_transactions
    bpc,                        \* where batch_process_transactions stands
    transactions,               \* its argument, each dict tagged with its index
    parsed_transactions,        \* the list built by batch_parse_transactions
    grouped_transactions,       \* batch_estimate_transactions: groups, in dict order
    awaited,                    \* its list of (i, transaction), before the sort
    api_enhanced_transactions,  \* what batch_estimate_transactions returns
    enhanced_transactions,      \* the list built by the loop of lines 592-646
    batch_provider_calls,       \* the provider calls made, with the item's index
    \* one call of get_carbon_estimate, provider by provider
    gce,
    \* _calculate_weighted_estimate on a growing set of estimates
    fusion,
    \* the get_carbon_estimate calls gathered by _get_multiple_estimates, each
    \* with the HTTP request it is waiting on
    api_calls,
    \* process_transaction called twice on one input: the input, what the
    \* capabilities answer for it, the clock, and the dicts returned
    repeated,
    \* one call of CarbonCalculator.calculate_footprint: arguments and outcome
    footprint

single_vars == <<pc, tx, signals, capability_errors, classification, estimates,
                 provider_calls, final_estimate, result>>

batch_vars == <<bpc, transactions, parsed_transactions, grouped_transactions, awaited,
                api_enhanced_transactions, enhanced_transactions, batch_provider_calls>>

vars == <<single_vars, batch_vars, gce, fusion, api_calls, repeated, footprint>>

\* what the steps of one operation leave alone: the state of the others
not_single == <<batch_vars, gce, fusion, api_calls, repeated, footprint>>
not_batch == <<single_vars, gce, fusion, api_calls, repeated, footprint>>
not_gce == <<single_vars, batch_vars, fusion, api_calls, repeated, footprint>>
not_fusion == <<single_vars, batch_vars, gce, api_calls, repeated, footprint>>
not_api_calls == <<single_vars, batch_vars, gce, fusion, repeated, footprint>>
not_repeated == <<single_vars, batch_vars, gce, fusion, api_calls, footprint>>
not_footprint == <<single_vars, batch_vars, gce, fusion, api_calls, repeated>>

\* user_preferences: None and {} are falsy; .get(key, True) otherwise
UserPreferences ==
    {[truthy |-> FALSE, use_carbon_interface |-> TRUE, use_climatiq |-> TRUE]}
    \cup
    {[truthy |-> TRUE, use_carbon_interface |-> a, use_climatiq |-> b] :
        a \in BOOLEAN, b \in BOOLEAN}

NoTx == [description |-> {}, amount |-> 0,
         user_preferences |-> [truthy |-> FALSE, use_carbon_interface |-> TRUE,
                               use_climatiq |-> TRUE]]

NoFinal == [carbon_kg |-> 0, confidence |-> 0, method |-> "None", total_weight |-> 0,
            primary_source |-> "None"]

NoReturn == [status |-> "none", final_carbon_kg |-> 0, final_confidence |-> 0,
             ai_category |-> "", sources |-> {}]

SingleInit ==
    /\ pc = "idle"
    /\ tx = NoTx
    /\ signals = <<>>
    /\ capability_errors = {}
    /\ classification = NoResult
    /\ estimates = <<>>
    /\ provider_calls = <<>>
    /\ final_estimate = NoFinal
    /\ result = NoReturn

(***************************************************************************)
(* EnhancedCarbonCalculator.process_transaction, step by step              *)
(***************************************************************************)
\* a caller invokes process_transaction(description, amount, date, prefs)
ProcessTransaction ==
    /\ pc = "idle"
    /\ \E d \in Descriptions, a \in Amounts, p \in UserPreferences :
          tx' = [description |-> d, amount |-> a, user_preferences |-> p]
    /\ pc' = "parse"
    /\ signals' = <<>>
    /\ capability_errors' = {}
    /\ classification' = NoResult
    /\ estimates' = <<>>
    /\ provider_calls' = <<>>
    /\ final_estimate' = NoFinal
    /\ result' = NoReturn
    /\ UNCHANGED not_single

\* the capabilities that raise during one parse_transaction: bert is not
\* called once nlp has raised
CapabilityErrors(nlp, bert) ==
    IF nlp.status = "raise" THEN {"nlp"}
    ELSE IF bert.status = "raise" THEN {"bert"} ELSE {}

\* Step 1 (line 41): ai_parser.parse_transaction; an exception of the nlp
\* capability propagates out of process_transaction
ParseTransaction ==
    /\ pc = "parse"
    /\ \E nlp \in NlpOutcomes(tx.description), bert \in BertOutcomes :
          /\ capability_errors' = CapabilityErrors(nlp, bert)
          /\ IF parse_transaction_raises(tx.description, nlp, bert)
             THEN /\ pc' = "raised"
                  /\ result' = [NoReturn EXCEPT !.status = "raised"]
                  /\ UNCHANGED <<signals, classification>>
             ELSE /\ pc' = "estimate"
                  /\ signals' = signal_results(tx.description, nlp, bert)
                  /\ classification' = parse_transaction(tx.description, nlp, bert)
                  /\ UNCHANGED result
    /\ UNCHANGED <<tx, estimates, provider_calls, final_estimate>>
    /\ UNCHANGED not_single

\* the api_tasks of _get_multiple_estimates (lines 109-125): the preferred
\* provider of each get_carbon_estimate call, in the order appended
api_tasks(classification_, user_preferences) ==
    IF classification_.confidence >= Pct(60)
    THEN (IF user_preferences.truthy /\ user_preferences.use_carbon_interface
          THEN <<"CARBON_INTERFACE">> ELSE <<>>)
         \o
         (IF user_preferences.truthy /\ user_preferences.use_climatiq
          THEN <<"CLIMATIQ">> ELSE <<>>)
    ELSE <<>>

\* lines 131-140: result i is stored under ['carbon_interface', 'climatiq'][i]
api_key_name(i) == IF i = 1 THEN "api_carbon_interface" ELSE "api_climatiq"

RECURSIVE store_api_results(_, _, _)
store_api_results(estimates_, api_results, n) ==
    IF n = 0 THEN estimates_
    ELSE Put(store_api_results(estimates_, api_results, n - 1),
             api_key_name(n), api_results[n].estimate)

\* _get_multiple_estimates with the local estimate moved under the
\* confidence gate of line 102
get_multiple_estimates_gated_local(classification_, amount, api_results) ==
    LET local == IF classification_.confidence >= Pct(60)
                 THEN <<[key |-> "local",
                         est |-> Estimate(calculate_footprint(classification_.category,
                                              classification_.subcategory, amount),
                                          Pct(70), "Local Enhanced Calculator")]>>
                 ELSE <<>>
        with_api == store_api_results(local, api_results, Len(api_results))
        industry_estimate == calculate_industry_specific(classification_, amount)
    IN IF industry_estimate.present
       THEN Put(with_api, "industry_specific", industry_estimate.est)
       ELSE with_api

\* _get_multiple_estimates, given the runs of the gathered calls
get_multiple_estimates(classification_, amount, api_results) ==
    LET local == <<[key |-> "local",
                    est |-> Estimate(calculate_footprint(classification_.category,
                                         classification_.subcategory, amount),
                                     Pct(70), "Local Enhanced Calculator")]>>
        with_api == store_api_results(local, api_results, Len(api_results))
        industry_estimate == calculate_industry_specific(classification_, amount)
    IN IF industry_estimate.present
       THEN Put(with_api, "industry_specific", industry_estimate.est)
       ELSE with_api

\* Step 2 (line 44): _get_multiple_estimates
GetMultipleEstimates ==
    /\ pc = "estimate"
    /\ LET tasks == api_tasks(classification, tx.user_preferences)
           activity_type == map_to_activity_type(classification)
           activity_data == prepare_activity_data(classification, tx.amount)
           Runs(i) == get_carbon_estimate(activity_type, activity_data, tasks[i])
       IN \E api_results \in [1..Len(tasks) -> UNION {Runs(i) : i \in 1..Len(tasks)}] :
             /\ \A i \in 1..Len(tasks) : api_results[i] \in Runs(i)
             /\ estimates' = get_multiple_estimates(classification, tx.amount, api_results)
             /\ provider_calls' =
                   IF Len(tasks) = 0 THEN <<>>
                   ELSE IF Len(tasks) = 1 THEN api_results[1].calls
                   ELSE api_results[1].calls \o api_results[2].calls
    /\ pc' = "fuse"
    /\ UNCHANGED <<tx, signals, capability_errors, classification, final_estimate, result>>
    /\ UNCHANGED not_single

\* Step 3 (line 47): _calculate_weighted_estimate
CalculateWeightedEstimate ==
    /\ pc = "fuse"
    /\ final_estimate' = calculate_weighted_estimate(estimates)
    /\ pc' = "return"
    /\ UNCHANGED <<tx, signals, capability_errors, classification, estimates, provider_calls, result>>
    /\ UNCHANGED not_single

\* lines 52-79: the dict returned
Return ==
    /\ pc = "return"
    /\ result' = [status |-> "returned",
                  final_carbon_kg |-> final_estimate.carbon_kg,
                  final_confidence |-> final_estimate.confidence,
                  ai_category |-> classification.category,
                  sources |-> Keys(estimates)]
    /\ pc' = "done"
    /\ UNCHANGED <<tx, signals, capability_errors, classification, estimates, provider_calls, final_estimate>>
    /\ UNCHANGED not_single

SingleNext ==
    \/ ProcessTransaction
    \/ ParseTransaction
    \/ GetMultipleEstimates
    \/ CalculateWeightedEstimate
    \/ Return

(***************************************************************************)
(* batch_process_transactions: batch_parse_transactions, then              *)
(* batch_estimate_transactions, then the loop of lines 592-646             *)
(***************************************************************************)
MaxBatch == 3

\* the transactions a batch is made of: (description, amount)
BatchItems ==
    {<<DescShell, 21>>, <<DescElectric, 21>>, <<DescDelta, 21>>, <<DescUnknown, -21>>}

\* In a batch the nlp capability finds no organization or raises, and the
\* text classifier is not loaded: each item parses to the classification
\* its description fixes, or parse_transaction raises.
BatchNlpOutcomes ==
    {[status |-> "doc", orgs |-> <<>>, locations |-> <<>>],
     [status |-> "raise", orgs |-> <<>>, locations |-> <<>>]}

BatchBertOutcome == [status |-> "unavailable", label |-> "", score |-> 0]

BatchIdle ==
    /\ bpc = "idle"
    /\ transactions = <<>>
    /\ parsed_transactions = <<>>
    /\ grouped_transactions = <<>>
    /\ awaited = <<>>
    /\ api_enhanced_transactions = <<>>
    /\ enhanced_transactions = <<>>
    /\ batch_provider_calls = <<>>

\* a caller invokes batch_process_transactions(transactions)
BatchProcessTransactions ==
    /\ bpc = "idle"
    /\ \E n \in 0..MaxBatch : \E items \in [1..n -> BatchItems] :
          transactions' = [i \in 1..n |->
                              [idx |-> i, description |-> items[i][1], amount |-> items[i][2]]]
    /\ bpc' = "parse"
    /\ UNCHANGED <<parsed_transactions, grouped_transactions, awaited,
                   api_enhanced_transactions, enhanced_transactions, batch_provider_calls>>
    /\ UNCHANGED not_batch

\* dict.update on the dict itself, without the copy
update_in_place(transaction, updates) ==
    [source |-> updates @@ transaction, copy |-> updates @@ transaction]

\* enhanced_transaction = transaction.copy(); enhanced_transaction.update(
\* updates): the dict the copy was taken of, as the statements leave it, and
\* the new dict (ai_transaction_parser.py lines 507-515,
\* carbon_api_integrator.py lines 512-522, enhanced_carbon_calculator.py
\* lines 629-640)
copy_update(transaction, updates) ==
    [source |-> transaction, copy |-> updates @@ transaction]

\* one iteration of the loop of batch_parse_transactions (lines 498-516):
\* parse_transaction is called outside any handler, so its exception leaves
\* batch_parse_transactions and batch_process_transactions
BatchParseItem ==
    /\ bpc = "parse"
    /\ Len(parsed_transactions) < Len(transactions)
    /\ LET n == Len(parsed_transactions) + 1
           transaction == transactions[n]
       IN \E nlp \in BatchNlpOutcomes :
             IF parse_transaction_raises(transaction.description, nlp, BatchBertOutcome)
             THEN /\ bpc' = "raised"
                  /\ UNCHANGED <<transactions, parsed_transactions>>
             ELSE LET enhanced == copy_update(transaction,
                                     [ai |-> parse_transaction(transaction.description,
                                                               nlp, BatchBertOutcome)])
                  IN /\ transactions' = [transactions EXCEPT ![n] = enhanced.source]
                     /\ parsed_transactions' = Append(parsed_transactions, enhanced.copy)
                     /\ UNCHANGED bpc
    /\ UNCHANGED <<grouped_transactions, awaited, api_enhanced_transactions,
                   enhanced_transactions, batch_provider_calls>>
    /\ UNCHANGED not_batch

\* CarbonAPIIntegrator._map_category_to_activity_type
map_category_to_activity_type(category, subcategory) ==
    IF category = "Transportation" /\ "flight" \in SubstringsOf(subcategory)
    THEN "flight"
    ELSE IF category = "Transportation"
               /\ SubstringsOf(subcategory) \cap {"gas", "fuel", "gasoline"} # {}
    THEN "fuel"
    ELSE CASE category = "Transportation" -> "transportation"
           [] category = "Energy" -> "electricity"
           [] category = "Food" -> "food"
           [] category = "Shopping" -> "manufacturing"
           [] category = "Entertainment" -> "electricity"
           [] OTHER -> "other"

\* CarbonAPIIntegrator._extract_activity_data
extract_activity_data(amount, subcategory, activity_type) ==
    CASE activity_type = "electricity" ->
            ActivityData({"kwh", "country", "region"}, amount,
                         0, 0, (amount * 100000) \div 12, 0)
      [] activity_type = "transportation" ->
            ActivityData({"distance_miles", "vehicle_type"}, amount, 0,
                IF SubstringsOf(subcategory) \cap {"gas", "fuel"} # {}
                THEN (amount * 2000 * 25) \div 7
                ELSE (amount * 2000) \div 5,
                0, 0)
      [] activity_type = "fuel" ->
            ActivityData({"gallons", "fuel_type"}, amount, (amount * 2000) \div 7, 0, 0, 0)
      [] activity_type = "food" ->
            ActivityData({"kg", "food_type"}, amount, 0, 0, 0, (amount * 1000) \div 8)
      [] OTHER -> ActivityData({"amount"}, amount, 0, 0, 0, 0)

ActivityTypeOf(transaction) ==
    map_category_to_activity_type(transaction.ai.category, transaction.ai.subcategory)

\* lines 485-495: the groups, keyed by activity type in order of first
\* appearance, each holding the indices of its transactions in input order
group_transactions(parsed) ==
    LET types == Distinct([i \in 1..Len(parsed) |-> ActivityTypeOf(parsed[i])])
        idxs == [i \in 1..Len(parsed) |-> i]
    IN [g \in 1..Len(types) |->
           [activity_type |-> types[g],
            items |-> SelectSeq(idxs, LAMBDA i : ActivityTypeOf(parsed[i]) = types[g])]]

\* batch_parse_transactions has returned; batch_estimate_transactions groups
BatchGroup ==
    /\ bpc = "parse"
    /\ Len(parsed_transactions) = Len(transactions)
    /\ grouped_transactions' = group_transactions(parsed_transactions)
    /\ bpc' = "await"
    /\ UNCHANGED <<transactions, parsed_transactions, awaited, api_enhanced_transactions,
                   enhanced_transactions, batch_provider_calls>>
    /\ UNCHANGED not_batch

\* the order in which the loops of lines 498-528 await the tasks
RECURSIVE AwaitOrder(_, _)
AwaitOrder(groups, g) ==
    IF g = 0 THEN <<>> ELSE AwaitOrder(groups, g - 1) \o groups[g].items

\* lines 507-528: one awaited get_carbon_estimate(activity_type,
\* activity_data) and the (i, enhanced_transaction) appended for it
BatchAwait ==
    /\ bpc = "await"
    /\ Len(awaited) < Len(parsed_transactions)
    /\ LET order == AwaitOrder(grouped_transactions, Len(grouped_transactions))
           i == order[Len(awaited) + 1]
           transaction == parsed_transactions[i]
           activity_type == ActivityTypeOf(transaction)
           activity_data == extract_activity_data(transaction.amount,
                                transaction.ai.subcategory, activity_type)
       IN \E run \in get_carbon_estimate(activity_type, activity_data, NoProvider) :
             LET enhanced == copy_update(transaction,
                                 [api |-> [present |-> TRUE,
                                           carbon_kg |-> run.estimate.carbon_kg,
                                           confidence |-> run.estimate.confidence,
                                           source |-> run.estimate.source]])
             IN
             /\ parsed_transactions' = [parsed_transactions EXCEPT ![i] = enhanced.source]
             /\ awaited' = Append(awaited, [i |-> i - 1, t |-> enhanced.copy])
             /\ batch_provider_calls' = batch_provider_calls \o
                   [k \in 1..Len(run.calls) |->
                       [idx |-> transaction.idx, provider |-> run.calls[k].provider,
                        ok |-> run.calls[k].ok]]
    /\ UNCHANGED <<bpc, transactions, grouped_transactions,
                   api_enhanced_transactions, enhanced_transactions>>
    /\ UNCHANGED not_batch

\* the pairs kept in the order they were appended
sort_unsorted(pairs) == [k \in 1..Len(pairs) |-> pairs[k].t]

\* lines 531-532: enhanced_transactions.sort(key=lambda x: x[0]), then the
\* transactions without their index (the indices are distinct)
sort_by_index(pairs) ==
    [k \in 1..Len(pairs) |->
        LET j == CHOOSE j \in 1..Len(pairs) :
                    Cardinality({m \in 1..Len(pairs) : pairs[m].i < pairs[j].i}) = k - 1
        IN pairs[j].t]

\* every task was awaited: batch_estimate_transactions sorts and returns
BatchSort ==
    /\ bpc = "await"
    /\ Len(awaited) = Len(parsed_transactions)
    /\ api_enhanced_transactions' = sort_by_index(awaited)
    /\ bpc' = "fusion"
    /\ UNCHANGED <<transactions, parsed_transactions, grouped_transactions, awaited,
                   enhanced_transactions, batch_provider_calls>>
    /\ UNCHANGED not_batch

\* lines 604-619: the estimates fused for one transaction of the batch; the
\* parsed dicts have no 'carbon_kg' key, so local is .get('carbon_kg', 0)
batch_estimates(transaction) ==
    <<[key |-> "local", est |-> Estimate(0, Pct(70), "Local Calculator")]>>
    \o
    (IF transaction.api.present /\ transaction.api.carbon_kg # 0
     THEN <<[key |-> "api_primary",
             est |-> Estimate(transaction.api.carbon_kg, transaction.api.confidence,
                              transaction.api.source)]>>
     ELSE <<>>)

\* one iteration of the loop of lines 592-646
BatchFuseItem ==
    /\ bpc = "fusion"
    /\ Len(enhanced_transactions) < Len(api_enhanced_transactions)
    /\ LET transaction == api_enhanced_transactions[Len(enhanced_transactions) + 1]
           batch_est == batch_estimates(transaction)
           final == calculate_weighted_estimate(batch_est)
           n == Len(enhanced_transactions) + 1
           enhanced == copy_update(transaction,
                           [sources |-> Keys(batch_est),
                            final_carbon_kg |-> final.carbon_kg,
                            final_confidence |-> final.confidence])
       IN /\ api_enhanced_transactions' =
                [api_enhanced_transactions EXCEPT ![n] = enhanced.source]
          /\ enhanced_transactions' = Append(enhanced_transactions, enhanced.copy)
    /\ UNCHANGED <<bpc, transactions, parsed_transactions, grouped_transactions, awaited,
                   batch_provider_calls>>
    /\ UNCHANGED not_batch

\* line 648: return enhanced_transactions
BatchReturn ==
    /\ bpc = "fusion"
    /\ Len(enhanced_transactions) = Len(api_enhanced_transactions)
    /\ bpc' = "done"
    /\ UNCHANGED <<transactions, parsed_transactions, grouped_transactions, awaited,
                   api_enhanced_transactions, enhanced_transactions, batch_provider_calls>>
    /\ UNCHANGED not_batch

BatchNext ==
    \/ BatchProcessTransactions
    \/ BatchParseItem
    \/ BatchGroup
    \/ BatchAwait
    \/ BatchSort
    \/ BatchFuseItem
    \/ BatchReturn

(***************************************************************************)
(* CarbonAPIIntegrator.get_carbon_estimate, one provider call at a time    *)
(***************************************************************************)
ActivityTypes ==
    {"electricity", "transportation", "flight", "fuel", "food", "manufacturing", "other"}

GceState(p, activity_type, activity_data, preferred_provider, k, calls, est, from) ==
    [pc |-> p, activity_type |-> activity_type, activity_data |-> activity_data,
     preferred_provider |-> preferred_provider, k |-> k, calls |-> calls,
     estimate |-> est, from |-> from]

GceIdle ==
    gce = GceState("idle", "other", ActivityData({}, 0, 0, 0, 0, 0), NoProvider, 1, <<>>,
                   NoEstimate, "None")

\* a caller invokes get_carbon_estimate(activity_type, activity_data,
\* preferred_provider); line 129 tests the preferred provider
GetCarbonEstimate ==
    /\ gce.pc = "idle"
    /\ \E activity_type \in ActivityTypes, amount \in Amounts,
          preferred_provider \in CarbonAPIProvider \cup {NoProvider} :
          gce' = GceState(IF preferred_provider # NoProvider THEN "preferred" ELSE "loop",
                          activity_type, extract_activity_data(amount, "", activity_type),
                          preferred_provider, 1, <<>>, NoEstimate, "None")
    /\ UNCHANGED not_gce

\* the state after _get_estimate_from_provider(provider) went as outcome
\* says: an estimate is returned (lines 135, 156); None, or an exception
\* caught at lines 136 and 157, lets the call go on at position k
AfterProviderCall(provider, outcome, k) ==
    IF outcome.kind = "ok"
    THEN [gce EXCEPT !.pc = "done",
                     !.k = k,
                     !.calls = Append(@, [provider |-> provider, ok |-> TRUE]),
                     !.estimate = outcome.est,
                     !.from = provider]
    ELSE [gce EXCEPT !.pc = "loop",
                     !.k = k,
                     !.calls = Append(@, [provider |-> provider, ok |-> FALSE])]

\* lines 129-137
TryPreferredProvider ==
    /\ gce.pc = "preferred"
    /\ \E outcome \in ProviderOutcomes(gce.preferred_provider, gce.activity_type,
                                       gce.activity_data) :
          gce' = AfterProviderCall(gce.preferred_provider, outcome, 1)
    /\ UNCHANGED not_gce

\* an iteration of the loop of line 147 that calls the preferred provider
\* again
TryNextProvider_no_skip ==
    /\ gce.pc = "loop"
    /\ gce.k <= Len(providers)
    /\ \E outcome \in ProviderOutcomes(providers[gce.k], gce.activity_type,
                                       gce.activity_data) :
          gce' = AfterProviderCall(providers[gce.k], outcome, gce.k + 1)
    /\ UNCHANGED not_gce

\* one iteration of the loop of lines 147-159
TryNextProvider ==
    /\ gce.pc = "loop"
    /\ gce.k <= Len(providers)
    /\ IF providers[gce.k] = gce.preferred_provider
       THEN gce' = [gce EXCEPT !.k = @ + 1]
       ELSE \E outcome \in ProviderOutcomes(providers[gce.k], gce.activity_type,
                                            gce.activity_data) :
               gce' = AfterProviderCall(providers[gce.k], outcome, gce.k + 1)
    /\ UNCHANGED not_gce

\* line 162: the loop is over, the fallback estimate is returned
ReturnFallback ==
    /\ gce.pc = "loop"
    /\ gce.k > Len(providers)
    /\ gce' = [gce EXCEPT !.pc = "done",
                          !.estimate = calculate_fallback_estimate(gce.activity_type,
                                                                   gce.activity_data),
                          !.from = "fallback"]
    /\ UNCHANGED not_gce

GceNext ==
    \/ GetCarbonEstimate
    \/ TryPreferredProvider
    \/ TryNextProvider
    \/ ReturnFallback

\* The caller cancels the task that runs the batch while it waits at
\* 'estimate = await task' (carbon_api_integrator.py line 509), the only
\* await under batch_process_transactions: asyncio.CancelledError is raised
\* there.  On the Python the setup requires (3.8+, setup_complete_system.py
\* line 77) it is a BaseException, so no 'except Exception' (lines 136, 157,
\* 223, 526; enhanced_carbon_calculator.py line 644) catches it: it leaves
\* batch_estimate_transactions and batch_process_transactions, and the
\* lists built so far are dropped with their frames
BatchCancel ==
    /\ bpc = "await"
    /\ Len(awaited) < Len(parsed_transactions)
    /\ bpc' = "cancelled"
    /\ UNCHANGED <<transactions, parsed_transactions, grouped_transactions, awaited,
                   api_enhanced_transactions, enhanced_transactions, batch_provider_calls>>
    /\ UNCHANGED not_batch

\* what the caller of batch_process_transactions holds: the list of line
\* 648 once it is returned, nothing while it runs or when an exception left it
BatchReturned == IF bpc = "done" THEN enhanced_transactions ELSE <<>>

BatchCancelNext == BatchNext \/ BatchCancel

(***************************************************************************)
(* _calculate_weighted_estimate applied to a set of estimates that grows   *)
(* by one estimate at a time                                               *)
(***************************************************************************)
MaxEstimates == 4

\* the two carbon_kg values the estimates carry (1/10000 kg)
FusionCarbonValues == {500000, 533400}

\* the entries an estimates dict is built from: local (0.7), the API keys
\* holding a provider's estimate or the fallback's (0.7), industry_specific
\* (0.85) and the batch's api_primary; and the ends of the range a
\* confidence lies in: 0 (under local and under api_primary, a key
\* source_weights does not hold) and 1.0
FusionEntries ==
    {[key |-> e[1], est |-> Estimate(c, Pct(e[2]), e[3])] :
        e \in {<<"local", 70, "Local Enhanced Calculator">>,
               <<"api_carbon_interface", 90, "Carbon Interface">>,
               <<"api_carbon_interface", 70, "EPA/IPCC Fallback">>,
               <<"api_climatiq", 85, "Climatiq">>,
               <<"api_climatiq", 70, "EPA/IPCC Fallback">>,
               <<"industry_specific", 85, "Industry-specific">>,
               <<"api_primary", 80, "CO2 Signal">>,
               <<"local", 0, "Local Calculator">>,
               <<"api_primary", 0, "API">>,
               <<"api_carbon_interface", 100, "Carbon Interface">>},
        c \in FusionCarbonValues}

FusionState(ests, before, after) == [estimates |-> ests, before |-> before, after |-> after]

FusionIdle ==
    fusion = FusionState(<<>>, calculate_weighted_estimate(<<>>),
                         calculate_weighted_estimate(<<>>))

\* one more estimate is put into the dict and the dict is fused again
AddEstimate ==
    /\ Len(fusion.estimates) < MaxEstimates
    /\ \E e \in FusionEntries :
          /\ ~HasKey(fusion.estimates, e.key)
          /\ fusion' = FusionState(Append(fusion.estimates, e), fusion.after,
                                   calculate_weighted_estimate(Append(fusion.estimates, e)))
    /\ UNCHANGED not_fusion

FusionNext == AddEstimate

(***************************************************************************)
(* _get_multiple_estimates with the gathered get_carbon_estimate calls     *)
(* (line 128) run request by request                                       *)
(***************************************************************************)
NoApiCalls == api_calls = <<>>

\* one gathered call: where it stands, the position k in the list of line
\* 140, the provider whose HTTP request is in flight, the provider calls made
\* so far, the providers whose request timed out, and what it returned
ApiCall(preferred_provider, p, k, in_flight, calls, timeouts, est, from) ==
    [preferred_provider |-> preferred_provider, pc |-> p, k |-> k,
     in_flight |-> in_flight, calls |-> calls, timeouts |-> timeouts,
     estimate |-> est, from |-> from]

\* the provider a call tries next: the preferred one (line 131), then the
\* k-th of the list of line 140
NextProvider(call) ==
    IF call.pc = "preferred" THEN call.preferred_provider ELSE providers[call.k]

\* the position the loop of line 147 goes on from after a try
NextPosition(call) == IF call.pc = "preferred" THEN 1 ELSE call.k + 1

\* the call after _get_estimate_from_provider(p) went as outcome says: an
\* estimate is returned (lines 135, 156); None or an exception (lines 136,
\* 157) lets the call go on at position k
CallAfter(call, p, outcome, k) ==
    IF outcome.kind = "ok"
    THEN [call EXCEPT !.pc = "done", !.k = k, !.in_flight = NoProvider,
                      !.calls = Append(@, [provider |-> p, ok |-> TRUE]),
                      !.estimate = outcome.est, !.from = p]
    ELSE [call EXCEPT !.pc = "loop", !.k = k, !.in_flight = NoProvider,
                      !.calls = Append(@, [provider |-> p, ok |-> FALSE])]

\* Step 1 (line 41) with neither capability loaded (self.nlp and
\* self.classifier are None after a failed load, lines 31 and 71): the
\* merchant table and the keywords classify
ParseTransactionUnloaded ==
    /\ pc = "parse"
    /\ LET nlp == [status |-> "unavailable", orgs |-> <<>>, locations |-> <<>>]
           bert == [status |-> "unavailable", label |-> "", score |-> 0]
       IN /\ signals' = signal_results(tx.description, nlp, bert)
          /\ classification' = parse_transaction(tx.description, nlp, bert)
    /\ pc' = "estimate"
    /\ UNCHANGED <<tx, capability_errors, estimates, provider_calls, final_estimate, result>>
    /\ UNCHANGED not_single

\* lines 102-128: the local estimate is computed, the calls are created and
\* gathered (no call at all under the gate of line 102)
GatherApiCalls ==
    /\ pc = "estimate"
    /\ api_calls' =
          LET tasks == api_tasks(classification, tx.user_preferences)
          IN [i \in 1..Len(tasks) |->
                 ApiCall(tasks[i], "preferred", 1, NoProvider, <<>>, {}, NoEstimate, "None")]
    /\ pc' = "gather"
    /\ UNCHANGED <<tx, signals, capability_errors, classification, estimates,
                   provider_calls, final_estimate, result>>
    /\ UNCHANGED <<batch_vars, gce, fusion, repeated, footprint>>

\* One try of a gathered call (lines 129-137, one iteration of 147-159):
\* the preferred provider is passed over in the loop; a provider method that
\* has its API key and serves the activity type sends its request and the
\* call waits for the response; otherwise it returns None or raises at once
TryProvider ==
    /\ pc = "gather"
    /\ \E i \in 1..Len(api_calls) :
          LET call == api_calls[i]
              activity_type == map_to_activity_type(classification)
              activity_data == prepare_activity_data(classification, tx.amount)
          IN /\ call.pc \in {"preferred", "loop"}
             /\ call.pc = "loop" => call.k <= Len(providers)
             /\ IF call.pc = "loop" /\ providers[call.k] = call.preferred_provider
                THEN api_calls' = [api_calls EXCEPT ![i].k = @ + 1]
                ELSE LET p == NextProvider(call)
                         outs == ProviderOutcomes(p, activity_type, activity_data)
                     IN \/ /\ \E o \in outs : o.kind = "ok"
                           /\ api_calls' = [api_calls EXCEPT ![i].pc = "http",
                                                             ![i].k = NextPosition(call),
                                                             ![i].in_flight = p]
                        \/ \E o \in outs :
                              /\ o.kind # "ok"
                              /\ api_calls' = [api_calls EXCEPT
                                                  ![i] = CallAfter(call, p, o,
                                                                   NextPosition(call))]
    /\ UNCHANGED not_api_calls

\* the response to the request in flight arrives (lines 215-221): status
\* 200 and an estimate, or another status and None
HttpResponse ==
    /\ pc = "gather"
    /\ \E i \in 1..Len(api_calls) :
          LET call == api_calls[i]
          IN /\ call.pc = "http"
             /\ \E o \in ProviderOutcomes(call.in_flight, map_to_activity_type(classification),
                                          prepare_activity_data(classification, tx.amount)) :
                   api_calls' = [api_calls EXCEPT
                                    ![i] = CallAfter(call, call.in_flight, o, call.k)]
    /\ UNCHANGED not_api_calls

\* a request that never times out
HttpTimeout_never ==
    /\ FALSE
    /\ UNCHANGED vars

\* No response has arrived when the total timeout of the session runs out:
\* aiohttp.ClientSession() (lines 209, 312, 400) is created without a timeout
\* argument and so with the library's default total timeout; the request
\* raises asyncio.TimeoutError, which the handler of lines 223, 326, 430
\* turns into None
HttpTimeout ==
    /\ pc = "gather"
    /\ \E i \in 1..Len(api_calls) :
          LET call == api_calls[i]
          IN /\ call.pc = "http"
             /\ api_calls' = [api_calls EXCEPT
                                 ![i] = [CallAfter(call, call.in_flight, Null, call.k)
                                            EXCEPT !.timeouts = @ \cup {call.in_flight}]]
    /\ UNCHANGED not_api_calls

\* line 162: every provider was tried, the call returns the fallback estimate
ReturnFallbackEstimate ==
    /\ pc = "gather"
    /\ \E i \in 1..Len(api_calls) :
          LET call == api_calls[i]
          IN /\ call.pc = "loop"
             /\ call.k > Len(providers)
             /\ api_calls' = [api_calls EXCEPT
                   ![i].pc = "done",
                   ![i].estimate = calculate_fallback_estimate(
                                       map_to_activity_type(classification),
                                       prepare_activity_data(classification, tx.amount)),
                   ![i].from = "fallback"]
    /\ UNCHANGED not_api_calls

\* lines 128-148: gather has every result; the results and the
\* industry-specific estimate are stored
StoreEstimates ==
    /\ pc = "gather"
    /\ \A i \in 1..Len(api_calls) : api_calls[i].pc = "done"
    /\ LET api_results == [i \in 1..Len(api_calls) |->
                              Run(api_calls[i].calls, api_calls[i].estimate,
                                  api_calls[i].from)]
       IN /\ estimates' = get_multiple_estimates(classification, tx.amount, api_results)
          /\ provider_calls' =
                IF Len(api_calls) = 0 THEN <<>>
                ELSE IF Len(api_calls) = 1 THEN api_calls[1].calls
                ELSE api_calls[1].calls \o api_calls[2].calls
    /\ pc' = "fuse"
    /\ UNCHANGED <<tx, signals, capability_errors, classification, final_estimate, result>>
    /\ UNCHANGED not_single

\* the steps that are taken when they can be, from _get_multiple_estimates
\* on: those of the coroutines, and the timeout of a request in flight
AwaitSteps ==
    \/ GatherApiCalls
    \/ TryProvider
    \/ HttpTimeout
    \/ ReturnFallbackEstimate
    \/ StoreEstimates
    \/ CalculateWeightedEstimate
    \/ Return

AwaitNext ==
    \/ ProcessTransaction
    \/ ParseTransactionUnloaded
    \/ GatherApiCalls
    \/ TryProvider
    \/ HttpResponse
    \/ HttpTimeout
    \/ ReturnFallbackEstimate
    \/ StoreEstimates
    \/ CalculateWeightedEstimate
    \/ Return

(***************************************************************************)
(* process_transaction called twice on identical input, with the           *)
(* capabilities loaded and the providers answering                         *)
(***************************************************************************)
\* date: a string, or None / '' (falsy at line 55)
NoDate == ""

Dates == {"2024-01-15", NoDate}

\* the readings of datetime.now() (lines 55 and 77), as instants
Instants == 1..3

\* datetime.isoformat(): one string per instant
isoformat(t) == CASE t = 1 -> "2026-01-01T00:00:01"
                  [] t = 2 -> "2026-01-01T00:00:02"
                  [] OTHER -> "2026-01-01T00:00:03"

\* the runs of get_carbon_estimate in which no provider fails: a call
\* returns None or raises only where the provider method does so whatever
\* the provider answers (activity type not served, method not defined)
NoFailureRuns(activity_type, activity_data, preferred_provider) ==
    {run \in get_carbon_estimate(activity_type, activity_data, preferred_provider) :
        \A c \in 1..Len(run.calls) :
            ~run.calls[c].ok =>
                \A o \in ProviderOutcomes(run.calls[c].provider, activity_type,
                                          activity_data) : o.kind # "ok"}

\* process_transaction with the date always read from the clock (and no
\* provider asked)
process_transaction_date_now(input, nlp, bert, now_date, now_processed) ==
    LET ai_classification == parse_transaction(input.description, nlp, bert)
        estimates_ == get_multiple_estimates(ai_classification, input.amount, <<>>)
        final_estimate_ == calculate_weighted_estimate(estimates_)
    IN [description |-> input.description, amount |-> input.amount,
        date |-> isoformat(now_date),
        ai_classification |-> ai_classification,
        carbon_estimates |-> estimates_,
        final_carbon_kg |-> final_estimate_.carbon_kg,
        final_confidence |-> final_estimate_.confidence,
        primary_source |-> final_estimate_.primary_source,
        processed_at |-> isoformat(now_processed)]

\* process_transaction (lines 25-79) as a function of its arguments (input:
\* description, amount, date, user_preferences), of what the capabilities
\* answer and of the two readings of the clock: the
\* dict returned (insights and environmental_impact are functions of the
\* classification, the amount and final_carbon_kg, and are left out)
process_transaction(input, nlp, bert, now_date, now_processed) ==
    LET ai_classification == parse_transaction(input.description, nlp, bert)
        tasks == api_tasks(ai_classification, input.user_preferences)
        api_results ==
            [i \in 1..Len(tasks) |->
                CHOOSE run \in NoFailureRuns(map_to_activity_type(ai_classification),
                                  prepare_activity_data(ai_classification, input.amount),
                                  tasks[i]) : TRUE]
        estimates_ == get_multiple_estimates(ai_classification, input.amount, api_results)
        final_estimate_ == calculate_weighted_estimate(estimates_)
    IN [description |-> input.description, amount |-> input.amount,
        date |-> IF input.date # NoDate THEN input.date ELSE isoformat(now_date),
        ai_classification |-> ai_classification,
        carbon_estimates |-> estimates_,
        final_carbon_kg |-> final_estimate_.carbon_kg,
        final_confidence |-> final_estimate_.confidence,
        primary_source |-> final_estimate_.primary_source,
        processed_at |-> isoformat(now_processed)]

RepeatedState(n, input, nlp, bert, now, outputs) ==
    [n |-> n, input |-> input, nlp |-> nlp, bert |-> bert, now |-> now,
     outputs |-> outputs]

NoInput == [description |-> {}, amount |-> 0, date |-> NoDate,
            user_preferences |-> [truthy |-> FALSE, use_carbon_interface |-> TRUE,
                                  use_climatiq |-> TRUE]]

RepeatedIdle ==
    repeated = RepeatedState(0, NoInput,
                             [status |-> "unavailable", orgs |-> <<>>, locations |-> <<>>],
                             [status |-> "unavailable", label |-> "", score |-> 0],
                             1, <<>>)

\* the inputs process_transaction is called twice on
RepeatedInputs ==
    [description : {DescShell, DescElectric, DescNetflix, DescUnknown},
     amount : {21},
     date : Dates,
     user_preferences : {p \in UserPreferences :
                            p.use_carbon_interface /\ p.use_climatiq}]

\* the first call: the document the nlp capability returns for the
\* description and the best label of the text classifier are fixed by the
\* description, and kept for the second call
FirstCall ==
    /\ repeated.n = 0
    /\ \E input \in RepeatedInputs :
          \E nlp \in {o \in NlpOutcomes(input.description) : o.status = "doc"},
             bert \in {b \in BertOutcomes : b.status = "result"},
             now_date \in Instants, now_processed \in Instants :
             /\ now_date <= now_processed
             /\ repeated' = RepeatedState(1, input, nlp, bert, now_processed,
                    <<process_transaction(input, nlp, bert, now_date, now_processed)>>)
    /\ UNCHANGED not_repeated

\* the second call, on the same arguments, no earlier than the first
SecondCall ==
    /\ repeated.n = 1
    /\ \E now_date \in Instants, now_processed \in Instants :
          /\ repeated.now <= now_date
          /\ now_date <= now_processed
          /\ repeated' = [repeated EXCEPT
                 !.n = 2,
                 !.now = now_processed,
                 !.outputs = Append(@,
                     process_transaction(repeated.input, repeated.nlp, repeated.bert,
                                         now_date, now_processed))]
    /\ UNCHANGED not_repeated

RepeatedNext == FirstCall \/ SecondCall

(***************************************************************************)
(* One call of CarbonCalculator.calculate_footprint                        *)
(***************************************************************************)
\* the categories of emission_factors and one that is not in the table
FootprintCategories ==
    {"Transportation", "Energy", "Food", "Shopping", "Entertainment", "Other", "Travel"}

\* None, the empty string, keys of the table ('taxi', 'beef'), and strings
\* that are no key of any category ('gasoline', 'bert_classified')
FootprintSubcategories ==
    {NoSubcategory, "", "taxi", "beef", "gasoline", "bert_classified"}

FootprintIdle ==
    footprint = [status |-> "idle", category |-> "", subcategory |-> "", amount |-> 0,
                 unit |-> "", factor |-> 0, carbon_kg |-> 0]

CalculateFootprint ==
    /\ \E category \in FootprintCategories, subcategory \in FootprintSubcategories,
          amount \in Amounts, unit \in FootprintUnits :
          LET out == calculate_footprint_unit(category, subcategory, amount, unit)
          IN footprint' = [status |-> IF out.raised THEN "raised" ELSE "returned",
                           category |-> category, subcategory |-> subcategory,
                           amount |-> amount, unit |-> unit,
                           factor |-> out.factor, carbon_kg |-> out.carbon_kg]
    /\ UNCHANGED not_footprint

FootprintNext == CalculateFootprint

(***************************************************************************)
(* Specifications                                                          *)
(***************************************************************************)

\* one call of process_transaction
Init ==
    /\ SingleInit /\ BatchIdle /\ GceIdle /\ FusionIdle /\ NoApiCalls /\ RepeatedIdle
    /\ FootprintIdle

Next == SingleNext

Spec == Init /\ [][Next]_vars

\* one call of batch_process_transactions
SpecBatch == Init /\ [][BatchNext]_vars

\* one call of batch_process_transactions that its caller may cancel
SpecBatchCancel == Init /\ [][BatchCancelNext]_vars

\* two calls of process_transaction on identical input
SpecRepeated == Init /\ [][RepeatedNext]_vars

\* one call of get_carbon_estimate; the event loop runs the coroutine on
\* until it returns
SpecGCE == Init /\ [][GceNext]_vars /\ WF_vars(GceNext)

\* _calculate_weighted_estimate on the dicts of at most MaxEstimates entries
SpecFusion == Init /\ [][FusionNext]_vars

\* one call of process_transaction with its provider requests in flight: the
\* event loop runs the coroutines on, and a request without a response times
\* out; nothing makes a provider respond
SpecAwait == Init /\ [][AwaitNext]_vars /\ WF_vars(AwaitSteps)

\* calls of calculate_footprint
SpecFootprint == Init /\ [][FootprintNext]_vars


(***************************************************************************)
(* Properties of process_transaction (specification Spec)                  *)
(***************************************************************************)
Parsed == pc \in {"estimate", "fuse", "return", "done"}

Estimated == pc \in {"fuse", "return", "done"}

\* an empty description or a negative amount
InvalidInput(t) == t.amount < 0 \/ t.description = DescEmpty

\* every provider called for the transaction failed (returned None or raised)
AllProvidersFailed ==
    /\ provider_calls # <<>>
    /\ \A i \in 1..Len(provider_calls) : ~provider_calls[i].ok

\* C2: in every execution of process_transaction the estimates handed to
\* _calculate_weighted_estimate contain the 'local' estimate, so they are
\* never empty: with no classification signal, below the provider gate, and
\* with every external provider failing.
C2_LocalAlwaysFused ==
    Estimated => (HasKey(estimates, "local") /\ estimates # <<>>)

\* no signal fired (fallback classification, below the gate) and
\* the estimates about to be fused hold 'local'.
C2_Witness ==
    /\ pc = "fuse"
    /\ classification.merchant_type = "fallback"
    /\ classification.confidence < Pct(60)
    /\ Keys(estimates) = {"local"}

\* C3: when every external provider called for a (valid) transaction
\* fails, the fused estimates hold only 'local' and, if the industry
\* matches, 'industry_specific'; no API-keyed entry is present.
C3_FailedProvidersContributeNothing ==
    (Estimated /\ ~InvalidInput(tx) /\ AllProvidersFailed)
        => Keys(estimates) \subseteq {"local", "industry_specific"}

\* C5: if the merchant lookup matches, parse_transaction returns
\* confidence exactly 0.95 and the merchant's category and subcategory,
\* whatever the other signals return.
C5_MerchantMatchYields095 ==
    (Parsed /\ signals[1].fired)
        => /\ classification.confidence = Pct(95)
           /\ classification.category = signals[1].category
           /\ classification.subcategory = signals[1].subcategory

\* C5, as the code has it: if the merchant lookup matches, the merchant signal has
\* confidence 0.95 and the classification returned has confidence at least
\* 0.95; when none of the other three signals fires, the confidence is
\* exactly 0.95 and category and subcategory are the merchant's.
C5_MerchantMatchAtLeast095 ==
    (Parsed /\ signals[1].fired)
        => /\ signals[1].confidence = Pct(95)
           /\ classification.confidence >= Pct(95)
           /\ (\A i \in 2..4 : ~signals[i].fired)
                 => /\ classification.confidence = Pct(95)
                    /\ classification.category = signals[1].category
                    /\ classification.subcategory = signals[1].subcategory

\* the merchant lookup is the only signal that fired
C5_Witness ==
    /\ Parsed
    /\ signals[1].fired
    /\ \A i \in 2..4 : ~signals[i].fired
    /\ classification.confidence = Pct(95)

\* C15: the confidence of every classification parse_transaction returns
\* lies in [0,1], whichever of the four signals fired (each with a
\* confidence in [0,1]) and however many of them vote for one category.
C15_ClassificationConfidenceInUnitInterval ==
    (Parsed /\ \A i \in 1..4 : signals[i].confidence \in 0..ONE)
        => classification.confidence \in 0..ONE

\* three signals or more voted for the category returned, with weights
\* that add up to 1.0 or more
C15_Witness ==
    /\ Parsed
    /\ Cardinality({i \in 1..4 : /\ signals[i].fired
                                 /\ signals[i].category = classification.category}) >= 3
    /\ classification.confidence = ONE

\* the estimates computed from the amount: local, industry_specific and the
\* integrator's fallback estimate
ComputedEstimates ==
    {i \in 1..Len(estimates) :
        \/ estimates[i].key \in {"local", "industry_specific"}
        \/ estimates[i].est.source = "EPA/IPCC Fallback"}

\* C16: for a transaction with amount >= 0, whatever its classification,
\* the local, the industry-specific and the fallback estimate are >= 0 and
\* so is the fused carbon_kg process_transaction returns.
C16_CarbonNonNegative ==
    tx.amount >= 0 =>
        /\ Estimated => \A i \in ComputedEstimates : estimates[i].est.carbon_kg >= 0
        /\ pc \in {"return", "done"} => final_estimate.carbon_kg >= 0
        /\ pc = "done" => result.final_carbon_kg >= 0

\* a result with a positive carbon_kg was returned for a positive amount,
\* fused from local, industry_specific and a fallback estimate
C16_Witness ==
    /\ pc = "done"
    /\ tx.amount > 0
    /\ {"local", "industry_specific"} \subseteq Keys(estimates)
    /\ \E i \in 1..Len(estimates) : estimates[i].est.source = "EPA/IPCC Fallback"
    /\ result.final_carbon_kg > 0

\* the categories of the merchant table, of the keyword table and of
\* emission_factors, and the fallback's 'Other'
Categories == {"Transportation", "Energy", "Food", "Shopping", "Entertainment", "Other"}

\* C17: the category of every classification parse_transaction returns is
\* one of Transportation, Energy, Food, Shopping, Entertainment and Other,
\* whatever the four signals return, each candidate label of the text
\* classifier included.
C17_CategoryInEnum == Parsed => classification.category \in Categories

\* the method weights C22 states, by signal: merchant lookup, entity
\* extraction, text classifier, keyword match (hundredths)
StatedMethodWeight == <<100, 80, 70, 60>>

\* the weight the signals accumulated for a category
AccumulatedWeight(category) ==
    SumSeq([i \in 1..4 |->
               IF signals[i].fired /\ signals[i].category = category
               THEN MulPct(signals[i].confidence, StatedMethodWeight[i])
               ELSE 0])

SomeSignalFired == \E i \in 1..4 : signals[i].fired

\* C22: when a signal fired, the category returned is one whose
\* accumulated weight (method weight * confidence over its signals) is
\* maximal, the confidence is min(that weight, 1.0) and merchant_type is
\* 'combined_ai'; the weight of the other categories does not enter.
C22_CategoryOfMaximalWeight ==
    (Parsed /\ SomeSignalFired)
        => /\ \E i \in 1..4 : signals[i].fired /\ signals[i].category = classification.category
           /\ \A i \in 1..4 :
                 signals[i].fired => AccumulatedWeight(signals[i].category)
                                        <= AccumulatedWeight(classification.category)
           /\ classification.confidence
                 = Min(AccumulatedWeight(classification.category), ONE)
           /\ classification.merchant_type = "combined_ai"

\* signals voted for two categories and the confidence returned, below
\* 1.0, is the weight of the winning one
C22_Witness ==
    /\ Parsed
    /\ \E i, j \in 1..4 : /\ signals[i].fired /\ signals[j].fired
                           /\ signals[i].category # signals[j].category
    /\ classification.confidence < ONE
    /\ classification.confidence = AccumulatedWeight(classification.category)

\* the weight the signals of the winning category accumulated for a pair
PairWeight(subcategory, carbon_intensity) ==
    SumSeq([i \in 1..4 |->
               IF /\ signals[i].fired
                  /\ signals[i].category = classification.category
                  /\ signals[i].subcategory = subcategory
                  /\ signals[i].carbon_intensity = carbon_intensity
               THEN weighted_confidence(signals[i])
               ELSE 0])

\* C23: the (subcategory, carbon_intensity) pair returned is the pair of
\* largest accumulated weight among the pairs the signals of the winning
\* category proposed; it was proposed together by one signal at least.
C23_PairOfMaximalWeight ==
    (Parsed /\ SomeSignalFired)
        => /\ \E i \in 1..4 :
                 /\ signals[i].fired
                 /\ signals[i].category = classification.category
                 /\ signals[i].subcategory = classification.subcategory
                 /\ signals[i].carbon_intensity = classification.carbon_intensity
           /\ \A i \in 1..4 :
                 (signals[i].fired /\ signals[i].category = classification.category)
                    => PairWeight(signals[i].subcategory, signals[i].carbon_intensity)
                          <= PairWeight(classification.subcategory,
                                        classification.carbon_intensity)

\* C24: when none of the four signals returns a result, parse_transaction
\* returns exactly (Other, unclassified, 0.1, medium, fallback) with no
\* location, and it returns a 'fallback' classification in no other case
C24_FallbackExactlyWhenNoSignal ==
    Parsed =>
        /\ ~SomeSignalFired
              => classification
                    = TransactionClassification("Other", "unclassified", Pct(10),
                                                "medium", "fallback", NoLocation)
        /\ SomeSignalFired
              => /\ classification.merchant_type # "fallback"
                 /\ classification.subcategory # "unclassified"

C24_Witness ==
    /\ Parsed
    /\ Len(signals) = 4
    /\ ~SomeSignalFired
    /\ classification.merchant_type = "fallback"
    /\ classification.confidence = Pct(10)

\* C26: when the entity-extraction signal fires with an extracted location
\* and its category is the winning category, the classification returned
\* carries that location, whatever other signals voted for the category
C26_LocationCarried ==
    (/\ Parsed
     /\ SomeSignalFired
     /\ signals[2].fired
     /\ signals[2].location # NoLocation
     /\ signals[2].category = classification.category)
        => classification.location = signals[2].location

\* C28: the two activity-type derivations agree: for the (category,
\* subcategory) of every classification, _map_category_to_activity_type
\* (batch mode) returns the activity type of _map_to_activity_type (single
\* mode)
C28_ActivityTypeDerivationsAgree ==
    Parsed =>
        map_category_to_activity_type(classification.category,
                                      classification.subcategory)
            = map_to_activity_type(classification)

\* C29: activity type and activity data are consistent in
\* process_transaction: whenever _map_to_activity_type yields a type T,
\* _prepare_activity_data yields the quantity key the estimators read for T
\* ('gallons' for fuel, 'distance_miles' for transportation, 'kwh' for
\* electricity, 'kg' for food), so that for a positive amount the fallback
\* estimate of a fuel, transportation, electricity or food activity is
\* positive
C29_ActivityTypeAndDataConsistent ==
    (Parsed /\ classification.confidence >= Pct(60)) =>
        LET activity_type == map_to_activity_type(classification)
            activity_data == prepare_activity_data(classification, tx.amount)
        IN /\ activity_type = "fuel" => "gallons" \in activity_data.keys
           /\ activity_type = "transportation" => "distance_miles" \in activity_data.keys
           /\ activity_type = "electricity" => "kwh" \in activity_data.keys
           /\ activity_type = "food" => "kg" \in activity_data.keys
           /\ (/\ tx.amount > 0
               /\ activity_type \in {"fuel", "transportation", "electricity", "food"})
                 => calculate_fallback_estimate(activity_type, activity_data).carbon_kg > 0

\* C30: in _get_multiple_estimates every API estimate is stored under the
\* key of the provider it was requested from, whatever the
\* use_carbon_interface and use_climatiq preferences: 'api_climatiq' for a
\* request with preferred provider CLIMATIQ, 'api_carbon_interface' for one
\* with preferred provider CARBON_INTERFACE
C30_ApiEstimateKeyedByRequestedProvider ==
    Estimated =>
        LET tasks == api_tasks(classification, tx.user_preferences)
            requested == {tasks[i] : i \in 1..Len(tasks)}
        IN /\ "api_carbon_interface" \in Keys(estimates)
                 => "CARBON_INTERFACE" \in requested
           /\ "api_climatiq" \in Keys(estimates) => "CLIMATIQ" \in requested

\* C7: a transaction with an empty description or a negative
\* amount is rejected instead of being classified and estimated:
\* process_transaction hands back no ordinary result for it.
C7_InvalidInputRejected ==
    (pc # "idle" /\ InvalidInput(tx)) => result.status # "returned"

\* C9: an exception of the nlp or of the text-classification
\* capability during parse_transaction is caught and never propagates.
C9_CapabilityExceptionsCaught ==
    capability_errors # {} => pc # "raised"


(***************************************************************************)
(* Claims about batch_process_transactions (SpecBatch)                     *)
(***************************************************************************)
SameTransaction(out, in) ==
    /\ out.idx = in.idx
    /\ out.description = in.description
    /\ out.amount = in.amount

\* C1: batch_estimate_transactions and batch_process_transactions return a
\* list as long as their input whose element i is derived from input
\* element i, whatever the grouping by activity type did to the order.
C1_BatchPreservesInputOrder ==
    /\ bpc \in {"fusion", "done"} =>
          /\ Len(api_enhanced_transactions) = Len(transactions)
          /\ \A i \in 1..Len(transactions) :
                SameTransaction(api_enhanced_transactions[i], transactions[i])
    /\ bpc = "done" =>
          /\ Len(enhanced_transactions) = Len(transactions)
          /\ \A i \in 1..Len(transactions) :
                SameTransaction(enhanced_transactions[i], transactions[i])

\* a returned batch whose estimates were awaited out of input order
C1_Witness ==
    /\ bpc = "done"
    /\ Len(transactions) = MaxBatch
    /\ \E k \in 1..Len(awaited) : awaited[k].i # k - 1

\* C4: a transaction whose classification confidence is below 0.6 causes no
\* call to an external provider on the batch path either.
C4_ProvidersGatedByConfidence ==
    \A k \in 1..Len(batch_provider_calls) :
        parsed_transactions[batch_provider_calls[k].idx].ai.confidence >= Pct(60)

\* C8: a failure while parsing or estimating one item never aborts the batch:
\* batch_process_transactions does not leave by an exception.
C8_BatchNeverAborts == bpc # "raised"


(***************************************************************************)
(* Claims about _calculate_weighted_estimate (SpecFusion)                  *)
(***************************************************************************)
\* the estimate added last, and the ones the dict held before
LastAdded == fusion.estimates[Len(fusion.estimates)]
HeldBefore == SubSeq(fusion.estimates, 1, Len(fusion.estimates) - 1)

\* the added estimate is a high-confidence one that agrees with the others
HighConfidenceConcurring ==
    /\ LastAdded.est.confidence >= Pct(80)
    /\ \A i \in 1..Len(HeldBefore) : HeldBefore[i].est.carbon_kg = LastAdded.est.carbon_kg

\* C6: adding a concurring high-confidence estimate to a non-empty set of
\* estimates never lowers final_confidence.
C6_ConfidenceMonotone ==
    (Len(fusion.estimates) >= 2 /\ HighConfidenceConcurring)
        => fusion.after.confidence >= fusion.before.confidence

\* C6, as the code has it: adding an estimate to a non-empty set keeps
\* final_confidence from falling exactly when the weight of the added
\* estimate (its confidence times the reliability of its source) is at
\* least the final_confidence the set had.
C6_ConfidenceMonotoneWhenWeightAtLeastAverage ==
    Len(fusion.estimates) >= 2
        => (fusion.after.confidence >= fusion.before.confidence
               <=> final_weight(LastAdded) >= fusion.before.confidence)

\* industry_specific (0.85, weight 0.7225) joins local and a Carbon
\* Interface estimate (final_confidence 0.73) and agrees with both
C6_Witness ==
    /\ Len(fusion.estimates) = 3
    /\ HighConfidenceConcurring
    /\ LastAdded.key = "industry_specific"
    /\ fusion.after.confidence < fusion.before.confidence

\* C14: for every non-empty set of estimates with confidences in [0,1],
\* sources outside the reliability table and a total weight of 0 included,
\* the confidence _calculate_weighted_estimate returns lies in [0,1].
C14_FusedConfidenceInUnitInterval ==
    (/\ fusion.estimates # <<>>
     /\ \A i \in 1..Len(fusion.estimates) : fusion.estimates[i].est.confidence \in 0..ONE)
        => fusion.after.confidence \in 0..ONE

\* estimates whose weights add up to more than 1.0, one of them from a
\* source the reliability table does not hold, were fused
C14_Witness ==
    /\ Len(fusion.estimates) >= 2
    /\ HasKey(fusion.estimates, "api_primary")
    /\ fusion.after.total_weight > ONE
    /\ fusion.after.confidence \in 1..ONE

\* the reliabilities C20 states, in hundredths: the primary API (Carbon
\* Interface), the secondary API (Climatiq), industry_specific and local
StatedReliability ==
    [api_carbon_interface |-> 100, api_climatiq |-> 95, industry_specific |-> 85,
     local |-> 80]

\* w_i = reliability(source_i) * confidence_i, in 1/400
StatedWeight(e) == (StatedReliability[e.key] * (e.est.confidence \div (ONE \div 100))) \div 25

\* C20: for a non-empty set of estimates from the primary API, the
\* secondary API, industry_specific and local with positive total weight,
\* carbon_kg is sum(carbon_kg_i * w_i) / sum(w_i) (to the unit carbon is
\* counted in) and confidence is min(sum(w_i) / count, 1.0), where w_i =
\* reliability(source_i) * confidence_i with reliabilities 1.0, 0.95, 0.85
\* and 0.8.
C20_WeightedAverageFormula ==
    LET n == Len(fusion.estimates)
        w == [i \in 1..n |-> StatedWeight(fusion.estimates[i])]
        sum_w == SumSeq(w)
        sum_cw == SumSeq([i \in 1..n |-> fusion.estimates[i].est.carbon_kg * w[i]])
    IN (/\ n > 0
        /\ Keys(fusion.estimates) \subseteq DOMAIN StatedReliability
        /\ sum_w > 0)
          => /\ fusion.after.carbon_kg * sum_w <= sum_cw
             /\ sum_cw < (fusion.after.carbon_kg + 1) * sum_w
             /\ fusion.after.confidence * n * 400 = Min(sum_w * ONE, n * 400 * ONE)

\* the four sources were fused, with different carbon_kg values: the result
\* lies strictly between them
C20_Witness ==
    /\ Keys(fusion.estimates) = DOMAIN StatedReliability
    /\ fusion.after.total_weight > 0
    /\ \E i \in 1..Len(fusion.estimates) :
          fusion.estimates[i].est.carbon_kg < fusion.after.carbon_kg
    /\ \E i \in 1..Len(fusion.estimates) :
          fusion.estimates[i].est.carbon_kg > fusion.after.carbon_kg

(***************************************************************************)
(* Claims about get_carbon_estimate (SpecGCE)                              *)
(***************************************************************************)
\* the order the providers are to be tried in
PriorityOrder(preferred_provider) ==
    LET rest == <<"CARBON_INTERFACE", "CLIMATIQ", "CLOVERLY", "CO2_SIGNAL">>
    IN IF preferred_provider = NoProvider
       THEN rest
       ELSE <<preferred_provider>> \o SelectSeq(rest, LAMBDA q : q # preferred_provider)

ProvidersCalledInPriorityOrder ==
    LET order == PriorityOrder(gce.preferred_provider)
        n == Len(gce.calls)
    IN /\ n <= Len(order)
       /\ \A i \in 1..n : gce.calls[i].provider = order[i]
       /\ \A i, j \in 1..n : gce.calls[i].provider = gce.calls[j].provider => i = j
       /\ \A i \in 1..n : gce.calls[i].ok => (i = n /\ gce.pc = "done")
       /\ gce.pc = "done" =>
             IF gce.from = "fallback"
             THEN /\ n = Len(order)
                  /\ \A i \in 1..n : ~gce.calls[i].ok
                  /\ gce.estimate = calculate_fallback_estimate(gce.activity_type,
                                                                gce.activity_data)
             ELSE /\ n >= 1
                  /\ gce.calls[n].ok
                  /\ gce.calls[n].provider = gce.from

\* C10: get_carbon_estimate calls the preferred provider first, then
\* CARBON_INTERFACE, CLIMATIQ, CLOVERLY, CO2_SIGNAL without the preferred
\* one; a provider that raises or returns None is passed over, none is
\* called after one returned an estimate, none is called twice, and every
\* call ends by returning an estimate.
C10_ProvidersTriedInPriorityOrder ==
    /\ []ProvidersCalledInPriorityOrder
    /\ (gce.pc # "idle") ~> (gce.pc = "done")

\* CLIMATIQ preferred: it, CARBON_INTERFACE and CLOVERLY fail, CO2_SIGNAL
\* returns the estimate
C10_Witness ==
    /\ gce.pc = "done"
    /\ gce.preferred_provider = "CLIMATIQ"
    /\ Len(gce.calls) = 4
    /\ gce.from = "CO2_SIGNAL"

\* the call as a whole (get_carbon_estimate above) is one of the runs the
\* provider-by-provider steps produce
StepsAgreeWithRuns ==
    gce.pc = "done" =>
        Run(gce.calls, gce.estimate, gce.from)
            \in get_carbon_estimate(gce.activity_type, gce.activity_data,
                                    gce.preferred_provider)


(***************************************************************************)
(* Claims about process_transaction with requests in flight (SpecAwait)    *)
(***************************************************************************)
\* a provider whose request timed out gave the call nothing: its try is
\* recorded as failed and the estimate the call returns is not from it
TimedOutCallsExcluded ==
    \A i \in 1..Len(api_calls) : \A p \in api_calls[i].timeouts :
        /\ api_calls[i].from # p
        /\ \A c \in 1..Len(api_calls[i].calls) :
              api_calls[i].calls[c].provider = p => ~api_calls[i].calls[c].ok

AnsweredProviders ==
    {api_calls[j].calls[c].provider :
        <<j, c>> \in {jc \in (1..Len(api_calls)) \X (1..4) :
                         /\ jc[2] <= Len(api_calls[jc[1]].calls)
                         /\ api_calls[jc[1]].calls[jc[2]].ok}}

\* call i sends a request in this step
RequestSent(i) ==
    /\ Len(api_calls') = Len(api_calls)
    /\ api_calls[i].pc # "http"
    /\ api_calls'[i].pc = "http"

\* C12: once a provider has answered a query, an identical query is served
\* from the cache: no further request for it goes to that provider.
C12_AnsweredQueryNotSentAgain ==
    [][\A i \in 1..Len(api_calls) :
          RequestSent(i) => api_calls'[i].in_flight \notin AnsweredProviders]_vars

(***************************************************************************)
(* Claims about a cancelled batch (SpecBatchCancel)                        *)
(***************************************************************************)
\* C13: when the caller cancels a running batch, the call in flight is
\* abandoned and the transactions completed before the cancellation are
\* still returned to the caller.
C13_CompletedReturnedAfterCancel ==
    bpc = "cancelled" =>
        \A k \in 1..Len(awaited) :
            \E r \in 1..Len(BatchReturned) : BatchReturned[r].idx = awaited[k].t.idx

WithoutClockFields(output, date) ==
    [output EXCEPT !.processed_at = "",
                   !.date = IF date = NoDate THEN NoDate ELSE @]

C19_InputsNotMutated ==
    [][/\ bpc # "idle" => transactions' = transactions
       /\ bpc = "await" => parsed_transactions' = parsed_transactions]_vars

\* a batch was returned with the results added to copies: the dicts passed
\* in still have the keys they came with
C19_Witness ==
    /\ bpc = "done"
    /\ Len(transactions) >= 2
    /\ Len(enhanced_transactions) = Len(transactions)
    /\ \A i \in 1..Len(transactions) :
          /\ DOMAIN transactions[i] = {"idx", "description", "amount"}
          /\ DOMAIN parsed_transactions[i] = {"idx", "description", "amount", "ai"}
          /\ "final_carbon_kg" \in DOMAIN enhanced_transactions[i]

\* C21: in batch_process_transactions the external estimate of a
\* transaction, fused under the key 'api_primary', has the weight 1.0 * its
\* confidence: with local (0.8 * 0.7) the fused confidence is the mean of
\* the two weights.
C21_BatchApiEstimateReliabilityOne ==
    \A i \in 1..Len(enhanced_transactions) :
        enhanced_transactions[i].sources = {"local", "api_primary"}
            => enhanced_transactions[i].final_confidence * 2
                  = MulPct(Pct(70), 80) + enhanced_transactions[i].api.confidence

\* what process_transaction fuses for the classification and amount of a
\* batch item when its first provider request returns the estimate the
\* batch received for the item (_get_multiple_estimates, then
\* _calculate_weighted_estimate)
SingleFinalEstimate(transaction) ==
    calculate_weighted_estimate(
        get_multiple_estimates(transaction.ai, transaction.amount,
            IF transaction.api.present
            THEN <<[estimate |-> Estimate(transaction.api.carbon_kg,
                                          transaction.api.confidence,
                                          transaction.api.source)]>>
            ELSE <<>>))

\* C27: batch and single processing agree: the final_carbon_kg and
\* final_confidence the batch assigns to a transaction are those
\* process_transaction returns for it on the same signal and provider
\* outcomes
C27_BatchAgreesWithSingle ==
    \A i \in 1..Len(enhanced_transactions) :
        /\ enhanced_transactions[i].final_carbon_kg
              = SingleFinalEstimate(enhanced_transactions[i]).carbon_kg
        /\ enhanced_transactions[i].final_confidence
              = SingleFinalEstimate(enhanced_transactions[i]).confidence

(***************************************************************************)
(* Properties of calculate_footprint (specification SpecFootprint)         *)
(***************************************************************************)
\* the keys of emission_factors[category] among the modelled subcategories
KnownSubcategory(category, subcategory) ==
    \/ category = "Transportation" /\ subcategory = "taxi"
    \/ category = "Food" /\ subcategory = "beef"

\* C25: calculate_footprint never raises, for any category, subcategory
\* (empty, unknown or None included) and unit; an unknown subcategory uses
\* the category's 'default' factor, an unknown category the factor 0.3, and
\* a value is always returned
C25_CalculateFootprintNeverRaises ==
    footprint.status # "idle" =>
        /\ footprint.status = "returned"
        /\ footprint.carbon_kg >= 0
        /\ ~KnownSubcategory(footprint.category, footprint.subcategory)
              => footprint.factor = emission_factor(footprint.category, "default")
        /\ footprint.category = "Travel" => footprint.factor = 3000

==========================================================================
